---- MODULE Spec2Model ----
(***************************************************************************)
(* A model of backend/views/workflow_processor.py: WorkflowProcessor, the  *)
(* intent classifier with its heuristic fallback, the dispatch graph, the  *)
(* service handlers and the response formatter.                            *)
(*                                                                         *)
(* A Python str is the sequence of its characters, a character being a     *)
(* one-character string ("U+XXXX" for a code point outside ASCII).  A      *)
(* Python value is a tagged record [k, v]: None, a str, an int, a bool, a  *)
(* dict (a function from its keys) or a list (a sequence).                 *)
(***************************************************************************)
EXTENDS Integers, Sequences, FiniteSets, TLC

(***************************************************************************)
(* Python values                                                           *)
(***************************************************************************)
None == [k |-> "none", v |-> 0]
Absent == [k |-> "absent", v |-> 0]
PyStr(s) == [k |-> "str", v |-> s]
PyInt(n) == [k |-> "int", v |-> n]
PyBool(b) == [k |-> "bool", v |-> b]
PyDict(f) == [k |-> "dict", v |-> f]
PyList(l) == [k |-> "list", v |-> l]

\* bool(x): Python truthiness
Truthy(x) ==
  CASE x.k = "none" -> FALSE
    [] x.k = "absent" -> FALSE
    [] x.k = "str" -> x.v # <<>>
    [] x.k = "int" -> x.v # 0
    [] x.k = "bool" -> x.v
    [] x.k = "dict" -> DOMAIN x.v # {}
    [] x.k = "list" -> x.v # <<>>

\* d.get(key, default) of a dict value, and of the state mapping
DictGet(d, key, default) == IF key \in DOMAIN d.v THEN d.v[key] ELSE default

\* x or y
Or(x, y) == IF Truthy(x) THEN x ELSE y

(***************************************************************************)
(* str methods                                                             *)
(***************************************************************************)
Upper == <<"A","B","C","D","E","F","G","H","I","J","K","L","M","N","O","P","Q","R","S","T","U","V","W","X","Y","Z">>
Lower == <<"a","b","c","d","e","f","g","h","i","j","k","l","m","n","o","p","q","r","s","t","u","v","w","x","y","z">>
Digits == <<"0","1","2","3","4","5","6","7","8","9">>
Whitespace == {" ", "\t", "\n", "\r"}
Range(s) == {s[i] : i \in DOMAIN s}

LowerChar(c) ==
  IF c \in Range(Upper) THEN Lower[CHOOSE i \in DOMAIN Upper : Upper[i] = c] ELSE c

\* s.lower()
ToLower(s) == [i \in DOMAIN s |-> LowerChar(s[i])]

\* s[:n]
Prefix(s, n) == SubSeq(s, 1, IF n < Len(s) THEN n ELSE Len(s))

\* s.startswith(p)
StartsWith(s, p) == Len(p) <= Len(s) /\ SubSeq(s, 1, Len(p)) = p

\* p in s
Contains(s, p) ==
  \E i \in 1..(Len(s) - Len(p) + 1) : SubSeq(s, i, i + Len(p) - 1) = p

\* any(p in s for p in ps)
ContainsAny(s, ps) == \E j \in DOMAIN ps : Contains(s, ps[j])

\* s.strip()
StripAt(s, keep) ==
  IF keep = {} THEN <<>>
  ELSE SubSeq(s, CHOOSE i \in keep : \A j \in keep : i <= j,
                 CHOOSE i \in keep : \A j \in keep : j <= i)
Strip(s) == StripAt(s, {i \in DOMAIN s : s[i] \notin Whitespace})

\* the index of the first c in s, 0 when there is none
Least(at) == IF at = {} THEN 0 ELSE CHOOSE i \in at : \A j \in at : i <= j
IndexOf(s, c) == Least({i \in DOMAIN s : s[i] = c})

\* s.split(c, 1)[1]  (s holds c)
AfterFirst(s, c) == SubSeq(s, IndexOf(s, c) + 1, Len(s))

\* s.split(c)
RECURSIVE Split(_, _)
\* the split of s at its first c, which is at i
SplitAt(s, c, i) ==
  IF i = 0 THEN <<s>> ELSE <<SubSeq(s, 1, i - 1)>> \o Split(SubSeq(s, i + 1, Len(s)), c)
Split(s, c) == SplitAt(s, c, IndexOf(s, c))

\* "\n".join(ls)
RECURSIVE Join(_, _)
Join(ls, sep) ==
  IF ls = <<>> THEN <<>>
  ELSE IF Len(ls) = 1 THEN ls[1]
  ELSE ls[1] \o sep \o Join(Tail(ls), sep)

\* s.replace(old, "")
RECURSIVE Remove(_, _)
Remove(s, old) ==
  IF s = <<>> THEN <<>>
  ELSE IF StartsWith(s, old) THEN Remove(SubSeq(s, Len(old) + 1, Len(s)), old)
  ELSE <<Head(s)>> \o Remove(Tail(s), old)

\* str(n) of an int
RECURSIVE NatToStr(_)
NatToStr(n) ==
  IF n < 10 THEN <<Digits[n + 1]>> ELSE NatToStr(n \div 10) \o <<Digits[(n % 10) + 1]>>
IntToStr(n) == IF n < 0 THEN <<"-">> \o NatToStr(0 - n) ELSE NatToStr(n)

\* int(s): the decimal integer s denotes (an optional sign, then digits, blanks
\* around it allowed); "error" stands for ValueError
DigitVal(c) == (CHOOSE i \in DOMAIN Digits : Digits[i] = c) - 1
RECURSIVE DigitsVal(_)
DigitsVal(s) ==
  IF s = <<>> THEN 0 ELSE DigitsVal(SubSeq(s, 1, Len(s) - 1)) * 10 + DigitVal(s[Len(s)])
Signed(t) == t # <<>> /\ t[1] \in {"-", "+"}
ParseDigits(t, ds) ==
  IF ds # <<>> /\ \A i \in DOMAIN ds : ds[i] \in Range(Digits)
  THEN [ok |-> TRUE, n |-> IF Signed(t) /\ t[1] = "-" THEN 0 - DigitsVal(ds) ELSE DigitsVal(ds)]
  ELSE [ok |-> FALSE, n |-> 0]
ParseStripped(t) == ParseDigits(t, IF Signed(t) THEN Tail(t) ELSE t)
ParseInt(s) == ParseStripped(Strip(s))

(***************************************************************************)
(* re: a pattern is a sequence of items, matched left to right with        *)
(* backtracking in the order Python's re tries the alternatives.  Every    *)
(* pattern of the program has one capturing group.                         *)
(***************************************************************************)
Item(t, s, r, a) == [t |-> t, s |-> s, r |-> r, a |-> a]
\* [...]: one character of the set
In(s) == <<Item("set", s, <<>>, <<>>)>>
\* [^...]
NotIn(s) == <<Item("notset", s, <<>>, <<>>)>>
\* .
Dot == <<Item("notset", {"\n"}, <<>>, <<>>)>>
\* literal text: r holds the characters
Lit(str) == <<Item("lit", {}, str, <<>>)>>
\* (?:a1|a2|...)
Alt(as) == <<Item("alt", {}, <<>>, as)>>
\* r*, r*?, r+, r+?, r?
Star(r) == <<Item("star", {}, r, <<>>)>>
LazyStar(r) == <<Item("lazystar", {}, r, <<>>)>>
Plus(r) == r \o Star(r)
LazyPlus(r) == r \o LazyStar(r)
Opt(r) == Alt(<<r, <<>>>>)
\* ( ... )
Group(r) == <<Item("open", {}, <<>>, <<>>)>> \o r \o <<Item("close", {}, <<>>, <<>>)>>
\* ^ and $
Bol == <<Item("bol", {}, <<>>, <<>>)>>
Eol == <<Item("eol", {}, <<>>, <<>>)>>
\* \s, \d, [a-zA-Z0-9_-] and its variants
WS == In({" ", "\t", "\n", "\r"})
Digit == In(Range(Digits))
AlNum == Range(Upper) \cup Range(Lower) \cup Range(Digits)

NoMatch == [ok |-> FALSE, from |-> 0, to |-> 0, gs |-> 0, ge |-> 0]

\* does item h take character c
Takes(h, c, ic) ==
  IF ic THEN (h.t = "set") = (LowerChar(c) \in {LowerChar(y) : y \in h.s})
  ELSE (h.t = "set") = (c \in h.s)

\* the position after the longest run of characters from i on that h takes
RunEnd(h, s, i, ic) ==
  Least({j \in i..(Len(s) + 1) : j = Len(s) + 1 \/ ~Takes(h, s[j], ic)})

\* is r one item that takes one character
OneChar(r) == Len(r) = 1 /\ r[1].t \in {"set", "notset"}

\* is text the literal lit
SameText(text, lit, ic) == IF ic THEN ToLower(text) = ToLower(lit) ELSE text = lit

\* m when it is a match, and else n
OrElse(m, n) == IF m.ok THEN m ELSE n

\* of the matches ms, each with the position it was tried from: the one tried
\* from the last position, or from the first
Pick(ms, last) ==
  IF ms = {} THEN NoMatch
  ELSE CHOOSE m \in ms : \A n \in ms : IF last THEN n.from <= m.from ELSE m.from <= n.from

\* the first alternative of as that lets the rest match
RECURSIVE MatchAlt(_, _, _, _, _, _, _, _)
RECURSIVE Match(_, _, _, _, _, _)
\* c* and c*? for one item c: the rest is matched after the longest, or the
\* shortest, run of c that lets it match
MatchRun(h, t, s, i, gs, ge, ic) ==
  Pick({m \in {[Match(t, s, j, gs, ge, ic) EXCEPT !.from = j] : j \in i..RunEnd(h.r[1], s, i, ic)} : m.ok},
       h.t = "star")

\* the item h of a pattern, then the rest t of it
MatchItem(h, t, s, i, gs, ge, ic) ==
  CASE h.t \in {"set", "notset"} ->
         IF i <= Len(s) /\ Takes(h, s[i], ic) THEN Match(t, s, i + 1, gs, ge, ic) ELSE NoMatch
    [] h.t = "lit" ->
         IF i + Len(h.r) - 1 <= Len(s) /\ SameText(SubSeq(s, i, i + Len(h.r) - 1), h.r, ic)
         THEN Match(t, s, i + Len(h.r), gs, ge, ic) ELSE NoMatch
    [] h.t = "alt" -> MatchAlt(h.a, 1, t, s, i, gs, ge, ic)
    [] h.t \in {"star", "lazystar"} /\ OneChar(h.r) -> MatchRun(h, t, s, i, gs, ge, ic)
    [] h.t = "star" ->
         OrElse(Match(h.r \o <<h>> \o t, s, i, gs, ge, ic), Match(t, s, i, gs, ge, ic))
    [] h.t = "lazystar" ->
         OrElse(Match(t, s, i, gs, ge, ic), Match(h.r \o <<h>> \o t, s, i, gs, ge, ic))
    [] h.t = "open" -> Match(t, s, i, i, ge, ic)
    [] h.t = "close" -> Match(t, s, i, gs, i, ic)
    [] h.t = "bol" -> IF i = 1 THEN Match(t, s, i, gs, ge, ic) ELSE NoMatch
    [] h.t = "eol" ->
         IF i = Len(s) + 1 \/ (i = Len(s) /\ s[i] = "\n")
         THEN Match(t, s, i, gs, ge, ic) ELSE NoMatch
Match(rs, s, i, gs, ge, ic) ==
  IF rs = <<>> THEN [ok |-> TRUE, from |-> 0, to |-> i, gs |-> gs, ge |-> ge]
  ELSE MatchItem(Head(rs), Tail(rs), s, i, gs, ge, ic)
MatchAlt(as, j, t, s, i, gs, ge, ic) ==
  IF j > Len(as) THEN NoMatch
  ELSE OrElse(Match(as[j] \o t, s, i, gs, ge, ic), MatchAlt(as, j + 1, t, s, i, gs, ge, ic))

\* re.search(rs, s): the leftmost match; ic is re.IGNORECASE
Search(rs, s, ic) ==
  Pick({m \in {[Match(rs, s, i, 0, 0, ic) EXCEPT !.from = i] : i \in 1..(Len(s) + 1)} : m.ok}, FALSE)

\* match.group(1)
Group1(m, s) == SubSeq(s, m.gs, m.ge - 1)

\* re.sub(rs, "", s) for a pattern that can match s once at most (it is
\* anchored at the start, or runs to the end of s)
Cut(m, s) == IF m.ok THEN SubSeq(s, 1, m.from - 1) \o SubSeq(s, m.to, Len(s)) ELSE s
SubEmpty(rs, s, ic) == Cut(Search(rs, s, ic), s)

(***************************************************************************)
(* The parameter extractors                                                *)
(***************************************************************************)
NameChars == AlNum \cup {"_", "-"}
BranchChars == AlNum \cup {"_", "/", "-"}
SlackNameChars == AlNum \cup {".", "_", "-"}

\* for pattern in patterns: match = re.search(pattern, query, re.IGNORECASE);
\* if match: return match.group(1) -- and None after the loop
RECURSIVE FirstGroup(_, _, _)
GroupOr(m, query, none) == IF m.ok THEN PyStr(Group1(m, query)) ELSE none
FirstGroup(patterns, j, query) ==
  IF j > Len(patterns) THEN None
  ELSE GroupOr(Search(patterns[j], query, TRUE), query, FirstGroup(patterns, j + 1, query))

RepoWord == Alt(<<Lit(<<"r","e","p","o">>), Lit(<<"r","e","p","o","s","i","t","o","r","y">>), Lit(<<"p","r","o","j","e","c","t">>)>>)
RepoSuffix == Alt(<<Plus(WS) \o Lit(<<"r","e","p","o">>), Plus(WS) \o Lit(<<"r","e","p","o","s","i","t","o","r","y">>),
                    Plus(WS) \o Lit(<<"p","r","o","j","e","c","t">>)>>)
RepoPatterns ==
  << RepoWord \o Plus(WS) \o Group(Plus(In(NameChars))),
     Alt(<<Lit(<<"i","n">>), Lit(<<"t","o">>), Lit(<<"f","o","r">>)>>) \o Plus(WS)
       \o Opt(Lit(<<"t","h","e">>) \o Plus(WS)) \o Group(Plus(In(NameChars))) \o Opt(RepoSuffix),
     Group(Plus(In(NameChars))) \o RepoSuffix >>
extract_repo_name(query) == FirstGroup(RepoPatterns, 1, query)

IssueNumberPatterns ==
  << Alt(<<Lit(<<"i","s","s","u","e">>), Lit(<<"b","u","g">>), Lit(<<"t","i","c","k","e","t">>)>>) \o Plus(WS) \o Opt(Lit(<<"#">>))
       \o Group(Plus(Digit)),
     Lit(<<"#">>) \o Group(Plus(Digit)),
     Alt(<<Lit(<<"n","u","m","b","e","r">>), Lit(<<"n","u","m">>)>>) \o Plus(WS) \o Group(Plus(Digit)) >>
\* int(match.group(1)) of a run of digits never raises
IntOf(g) == IF g = None THEN None ELSE PyInt(DigitsVal(g.v))
extract_issue_number(query) == IntOf(FirstGroup(IssueNumberPatterns, 1, query))

\* the class body defines _extract_branch_name twice; the second definition
\* is the one bound to the name, and its body only assigns the pattern list
extract_branch_name(query) == None

SourceBranchPatterns ==
  << Lit(<<"f","r","o","m">>) \o Plus(WS) \o Group(Plus(In(BranchChars))),
     Lit(<<"b","a","s","e","d">>) \o Plus(WS) \o Lit(<<"o","n">>) \o Plus(WS) \o Group(Plus(In(BranchChars))),
     Lit(<<"o","f","f">>) \o Plus(WS) \o Group(Plus(In(BranchChars))) >>
extract_source_branch(query) == FirstGroup(SourceBranchPatterns, 1, query)

\* (.+?)(?:\s+in\s+|\s*$)
ContentTail ==
  Group(LazyPlus(Dot)) \o Alt(<<Plus(WS) \o Lit(<<"i","n">>) \o Plus(WS), Star(WS) \o Eol>>)
ContentPatterns ==
  << Lit(<<"a","b","o","u","t">>) \o Plus(WS) \o ContentTail,
     Lit(<<":">>) \o Star(WS) \o ContentTail,
     Lit(<<"t","h","a","t">>) \o Plus(WS) \o ContentTail,
     Lit(<<"w","i","t","h">>) \o Plus(WS) \o ContentTail >>
TitleLen == 50
\* None, or the dict {"title", "body"}
IssueOf(content) ==
  PyDict([title |-> PyStr(IF Len(content) > TitleLen
                          THEN Prefix(content, TitleLen) \o <<".",".",".">> ELSE content),
          body |-> PyStr(<<"I","s","s","u","e"," ","d","e","t","a","i","l","s",":"," ">> \o content
                         \o <<"\n","\n","R","e","p","o","r","t","e","d"," ","v","i","a"," ","D","e","v","C","a","s","c","a","d","e"," ","a","u","t","o","m","a","t","i","o","n",".">>)])
ContentOf(g) == IF g = None THEN None ELSE IssueOf(Strip(g.v))
extract_issue_content(query) == ContentOf(FirstGroup(ContentPatterns, 1, query))

SlackUserPattern ==
  Alt(<<Lit(<<"t","o">>), Lit(<<"@">>)>>) \o Star(WS) \o Opt(Lit(<<"@">>))
    \o Group(Plus(In(SlackNameChars)))
SlackChannelPattern ==
  Alt(<<Lit(<<"c","h","a","n","n","e","l">>), Lit(<<"i","n">>)>>) \o Plus(WS) \o Opt(Lit(<<"#">>))
    \o Group(Plus(In(NameChars)))
SlackQuotePattern ==
  In({"\"", "'"}) \o Group(Plus(NotIn({"\"", "'"}))) \o In({"\"", "'"})
SlackTargetWord == Alt(<<Lit(<<"t","o">>), Lit(<<"@">>), Lit(<<"i","n">>), Lit(<<"c","h","a","n","n","e","l">>)>>)
SlackColonPattern ==
  Lit(<<":">>) \o Star(WS) \o Group(LazyPlus(Dot))
    \o Alt(<<Plus(WS) \o SlackTargetWord, Eol>>)
SlackCommandPattern ==
  Bol \o Alt(<<Lit(<<"s","e","n","d">>), Lit(<<"m","e","s","s","a","g","e">>), Lit(<<"n","o","t","i","f","y">>), Lit(<<"t","e","l","l">>), Lit(<<"i","n","f","o","r","m">>)>>)
    \o Plus(WS) \o Opt(Lit(<<"a">>) \o Plus(WS)) \o Opt(Lit(<<"s","l","a","c","k">>) \o Plus(WS))
    \o Opt(Lit(<<"m","e","s","s","a","g","e">>) \o Star(WS)) \o Opt(Lit(<<":">>)) \o Star(WS)
SlackTargetClause == Plus(WS) \o SlackTargetWord \o Plus(WS) \o Plus(Dot) \o Eol

\* the dict {"user", "channel", "message"}
\* the message of the query: quoted, or after a colon, or what the two
\* re.sub calls leave of it
StrOrNone(text) == IF text # <<>> THEN PyStr(text) ELSE None
StrippedGroup(m, query) == PyStr(Strip(Group1(m, query)))
SlackMessageOf(quote_match, colon_match, query) ==
  IF quote_match.ok THEN StrippedGroup(quote_match, query)
  ELSE IF colon_match.ok THEN StrippedGroup(colon_match, query)
  ELSE StrOrNone(Strip(SubEmpty(SlackTargetClause, SubEmpty(SlackCommandPattern, query, TRUE), TRUE)))
extract_slack_target(query) ==
  [user |-> GroupOr(Search(SlackUserPattern, query, TRUE), query, None),
   channel |-> GroupOr(Search(SlackChannelPattern, query, TRUE), query, None),
   message |-> SlackMessageOf(Search(SlackQuotePattern, query, FALSE),
                              Search(SlackColonPattern, query, TRUE), query)]

(***************************************************************************)
(* The intents and the classifier                                          *)
(***************************************************************************)
github_create_issue == <<"g","i","t","h","u","b","_","c","r","e","a","t","e","_","i","s","s","u","e">>
github_list_issues == <<"g","i","t","h","u","b","_","l","i","s","t","_","i","s","s","u","e","s">>
github_get_issue == <<"g","i","t","h","u","b","_","g","e","t","_","i","s","s","u","e">>
github_comment_issue == <<"g","i","t","h","u","b","_","c","o","m","m","e","n","t","_","i","s","s","u","e">>
github_list_branches == <<"g","i","t","h","u","b","_","l","i","s","t","_","b","r","a","n","c","h","e","s">>
github_get_branch == <<"g","i","t","h","u","b","_","g","e","t","_","b","r","a","n","c","h">>
github_create_branch == <<"g","i","t","h","u","b","_","c","r","e","a","t","e","_","b","r","a","n","c","h">>
slack_send_message == <<"s","l","a","c","k","_","s","e","n","d","_","m","e","s","s","a","g","e">>
general_response == <<"g","e","n","e","r","a","l","_","r","e","s","p","o","n","s","e">>
needs_clarification == <<"n","e","e","d","s","_","c","l","a","r","i","f","i","c","a","t","i","o","n">>
unhandled == <<"u","n","h","a","n","d","l","e","d">>

\* the keys every result of the classifier carries
Fields(action, repo, number, comment, title, body) ==
  [action_type |-> PyStr(action), repo_name |-> repo, issue_number |-> number,
   comment_body |-> comment, issue_title |-> title, issue_body |-> body,
   error_message |-> None]

greeting_patterns ==
  <<<<"h","e","l","l","o">>, <<"h","i">>, <<"h","e","y">>, <<"h","o","w","d","y">>, <<"g","r","e","e","t","i","n","g","s">>, <<"g","o","o","d"," ","m","o","r","n","i","n","g">>,
    <<"g","o","o","d"," ","a","f","t","e","r","n","o","o","n">>, <<"g","o","o","d"," ","e","v","e","n","i","n","g">>>>
question_patterns ==
  <<<<"h","o","w"," ","a","r","e"," ","y","o","u">>, <<"w","h","a","t"," ","c","a","n"," ","y","o","u"," ","d","o">>, <<"h","e","l","p">>, <<"w","h","a","t"," ","i","s">>, <<"t","e","l","l"," ","m","e"," ","a","b","o","u","t">>,
    <<"e","x","p","l","a","i","n">>>>
create_patterns == <<<<"c","r","e","a","t","e">>, <<"r","a","i","s","e">>, <<"o","p","e","n">>, <<"m","a","k","e">>, <<"n","e","w">>, <<"a","d","d">>>>
issue_patterns == <<<<"i","s","s","u","e">>, <<"b","u","g">>, <<"t","i","c","k","e","t">>, <<"p","r","o","b","l","e","m">>, <<"f","e","a","t","u","r","e">>>>
list_patterns ==
  <<<<"l","i","s","t">>, <<"s","h","o","w">>, <<"s","e","e">>, <<"v","i","e","w">>, <<"d","i","s","p","l","a","y">>, <<"g","e","t"," ","a","l","l">>, <<"w","h","a","t"," ","a","r","e">>>>
slack_patterns == <<<<"s","e","n","d">>, <<"m","e","s","s","a","g","e">>, <<"n","o","t","i","f","y">>, <<"t","e","l","l">>, <<"s","l","a","c","k">>, <<"i","n","f","o","r","m">>>>
branch_patterns == <<<<"b","r","a","n","c","h">>, <<"b","r","a","n","c","h","e","s">>>>
list_branch_patterns ==
  <<<<"l","i","s","t">>, <<"s","h","o","w">>, <<"s","e","e">>, <<"v","i","e","w">>, <<"d","i","s","p","l","a","y">>, <<"g","e","t"," ","a","l","l">>, <<"w","h","a","t">>>>
create_branch_patterns == <<<<"c","r","e","a","t","e">>, <<"m","a","k","e">>, <<"n","e","w">>, <<"a","d","d">>>>

\* the branch rule of the fallback: None stands for falling through to the default
BranchRuleOf(user_query, query_lower, repo_name, branch_name) ==
  IF ContainsAny(query_lower, create_branch_patterns)
  THEN Fields(github_create_branch, repo_name, None, None, None, None)
       @@ [branch_name |-> branch_name,
           source_branch |-> Or(extract_source_branch(user_query), PyStr(<<"m","a","i","n">>))]
  ELSE IF ContainsAny(query_lower, list_branch_patterns)
  THEN Fields(github_list_branches, repo_name, None, None, None, None)
       @@ [branch_name |-> None, source_branch |-> None]
  ELSE IF Truthy(branch_name)
  THEN Fields(github_get_branch, repo_name, None, None, None, None)
       @@ [branch_name |-> branch_name, source_branch |-> None]
  ELSE None
BranchRule(user_query, query_lower, repo_name) ==
  BranchRuleOf(user_query, query_lower, repo_name, extract_branch_name(user_query))

\* a fallback that gives up: every query is unhandled
fallback_unhandled(user_query) == Fields(unhandled, None, None, None, None, None)

\* a fallback without keyword rules: every query is general conversation
fallback_general_only(user_query) == Fields(general_response, None, None, None, None, None)

OrDefault(rule, default) == IF rule # None THEN rule ELSE default
\* a fallback that asks the get-issue rule before the list-issue rule
FallbackRulesSpecificFirst(user_query, query_lower, repo_name, issue_number, issue_content) ==
     IF ContainsAny(query_lower, greeting_patterns)
     THEN Fields(general_response, None, None, None, None, None)
     ELSE IF ContainsAny(query_lower, question_patterns)
     THEN Fields(general_response, None, None, None, None, None)
     ELSE IF ContainsAny(query_lower, create_patterns) /\ ContainsAny(query_lower, issue_patterns)
     THEN IF ~Truthy(issue_content)
          THEN Fields(needs_clarification, repo_name, None, None, None, None)
               @@ [needs_clarification |-> PyBool(TRUE)]
          ELSE Fields(github_create_issue, repo_name, None, None,
                      issue_content.v.title, issue_content.v.body)
     ELSE IF Truthy(issue_number)
             /\ (Contains(query_lower, <<"s","h","o","w">>) \/ Contains(query_lower, <<"g","e","t">>)
                 \/ Contains(query_lower, <<"d","e","t","a","i","l","s">>))
     THEN Fields(github_get_issue, repo_name, issue_number, None, None, None)
     ELSE IF ContainsAny(query_lower, list_patterns) /\ ContainsAny(query_lower, issue_patterns)
     THEN Fields(github_list_issues, repo_name, None, None, None, None)
     ELSE IF Truthy(issue_number)
             /\ (Contains(query_lower, <<"c","o","m","m","e","n","t">>) \/ Contains(query_lower, <<"r","e","p","l","y">>))
     THEN Fields(github_comment_issue, repo_name, issue_number, PyStr(user_query), None, None)
     ELSE IF ContainsAny(query_lower, slack_patterns)
     THEN Fields(slack_send_message, None, None, None, None, None)
     ELSE IF ContainsAny(query_lower, branch_patterns)
     THEN OrDefault(BranchRule(user_query, query_lower, repo_name),
                    Fields(general_response, repo_name, issue_number, None, None, None))
     ELSE Fields(general_response, repo_name, issue_number, None, None, None)

FallbackRules(user_query, query_lower, repo_name, issue_number, issue_content) ==
     IF ContainsAny(query_lower, greeting_patterns)
     THEN Fields(general_response, None, None, None, None, None)
     ELSE IF ContainsAny(query_lower, question_patterns)
     THEN Fields(general_response, None, None, None, None, None)
     ELSE IF ContainsAny(query_lower, create_patterns) /\ ContainsAny(query_lower, issue_patterns)
     THEN IF ~Truthy(issue_content)
          THEN Fields(needs_clarification, repo_name, None, None, None, None)
               @@ [needs_clarification |-> PyBool(TRUE)]
          ELSE Fields(github_create_issue, repo_name, None, None,
                      issue_content.v.title, issue_content.v.body)
     ELSE IF ContainsAny(query_lower, list_patterns) /\ ContainsAny(query_lower, issue_patterns)
     THEN Fields(github_list_issues, repo_name, None, None, None, None)
     ELSE IF Truthy(issue_number)
             /\ (Contains(query_lower, <<"s","h","o","w">>) \/ Contains(query_lower, <<"g","e","t">>)
                 \/ Contains(query_lower, <<"d","e","t","a","i","l","s">>))
     THEN Fields(github_get_issue, repo_name, issue_number, None, None, None)
     ELSE IF Truthy(issue_number)
             /\ (Contains(query_lower, <<"c","o","m","m","e","n","t">>) \/ Contains(query_lower, <<"r","e","p","l","y">>))
     THEN Fields(github_comment_issue, repo_name, issue_number, PyStr(user_query), None, None)
     ELSE IF ContainsAny(query_lower, slack_patterns)
     THEN Fields(slack_send_message, None, None, None, None, None)
     ELSE IF ContainsAny(query_lower, branch_patterns)
     THEN OrDefault(BranchRule(user_query, query_lower, repo_name),
                    Fields(general_response, repo_name, issue_number, None, None, None))
     ELSE Fields(general_response, repo_name, issue_number, None, None, None)
fallback_classification(user_query) ==
  FallbackRules(user_query, Strip(ToLower(user_query)), extract_repo_name(user_query),
                extract_issue_number(user_query), extract_issue_content(user_query))

\* d[key] = value for a key the dict may not hold yet
Put(d, key, value) == (key :> value) @@ d

\* x if x.lower() != "null" else None
NullOr(x) == IF ToLower(x) # <<"n","u","l","l">> THEN PyStr(x) ELSE None

\* line.split(":", 1)[1].strip()
LineValue(line) == Strip(AfterFirst(line, ":"))

\* one turn of the loop over the lines of the reply
\* try: parsed["issue_number"] = int(value); except ValueError: pass
PutInt(parsed, value, int) ==
  IF ToLower(value) # <<"n","u","l","l">> /\ int.ok THEN Put(parsed, "issue_number", PyInt(int.n)) ELSE parsed
ParseField(parsed, line, value) ==
     IF StartsWith(line, <<"A","C","T","I","O","N",":">>) THEN Put(parsed, "action_type", PyStr(value))
     ELSE IF StartsWith(line, <<"R","E","P","O",":">>) THEN Put(parsed, "repo_name", NullOr(value))
     ELSE IF StartsWith(line, <<"I","S","S","U","E","_","N","U","M","B","E","R",":">>) THEN PutInt(parsed, value, ParseInt(value))
     ELSE IF StartsWith(line, <<"I","S","S","U","E","_","T","I","T","L","E",":">>) THEN Put(parsed, "issue_title", NullOr(value))
     ELSE IF StartsWith(line, <<"I","S","S","U","E","_","B","O","D","Y",":">>) THEN Put(parsed, "issue_body", NullOr(value))
     ELSE IF StartsWith(line, <<"B","R","A","N","C","H","_","N","A","M","E",":">>) THEN Put(parsed, "branch_name", NullOr(value))
     ELSE IF StartsWith(line, <<"S","O","U","R","C","E","_","B","R","A","N","C","H",":">>) THEN Put(parsed, "source_branch", NullOr(value))
     ELSE IF StartsWith(line, <<"C","O","M","M","E","N","T",":">>) THEN Put(parsed, "comment_body", NullOr(value))
     ELSE parsed
ParseStrippedLine(parsed, line) == ParseField(parsed, line, LineValue(line))
ParseLine(parsed, raw) == ParseStrippedLine(parsed, Strip(raw))

RECURSIVE ParseLines(_, _)
ParseLines(parsed, lines) ==
  IF lines = <<>> THEN parsed ELSE ParseLines(ParseLine(parsed, Head(lines)), Tail(lines))

parse_structured_response(response_text) ==
  ParseLines(Fields(unhandled, None, None, None, None, None)
               @@ [needs_clarification |-> PyBool(FALSE)],
             Split(response_text, "\n"))

\* What the language model does with a prompt: it raises, or it replies with a text.
ModelRaises == [raised |-> TRUE, text |-> <<>>]
ModelReplies(text) == [raised |-> FALSE, text |-> text]

\* a classifier that keeps a reply parsed as unhandled instead of handing the
\* query to the fallback
classify_without_fallback(st, reply) ==
  IF reply.raised THEN fallback_classification(st.user_query.v)
  ELSE parse_structured_response(Strip(reply.text))

\* _classify_and_extract_parameters_node: the dict the node returns
FallbackIfUnhandled(parsed_data, user_query) ==
  IF parsed_data["action_type"] = PyStr(unhandled)
  THEN fallback_classification(user_query) ELSE parsed_data
classify_and_extract_parameters_node(st, reply) ==
  IF reply.raised THEN fallback_classification(st.user_query.v)
  ELSE FallbackIfUnhandled(parse_structured_response(Strip(reply.text)), st.user_query.v)

(***************************************************************************)
(* The HTTP transport: a request either raises (timeout, connection error) *)
(* or returns a response with a status, a raw text and, when the text      *)
(* decodes, the JSON value response.json() returns.                        *)
(***************************************************************************)
Undecodable == [k |-> "undecodable", v |-> 0]
HttpTimeout == [kind |-> "timeout", status |-> 0, text |-> <<>>, json |-> Undecodable]
HttpConnectionError == [kind |-> "connection", status |-> 0, text |-> <<>>, json |-> Undecodable]
Http(status, text, json) == [kind |-> "response", status |-> status, text |-> text, json |-> json]

\* a request: the method, the URL template, the repository, the path parameter
\* and the JSON payload
Request(method, endpoint, repo, item, data) ==
  [method |-> method, endpoint |-> endpoint, repo |-> repo, item |-> item, data |-> data]

\* what a helper or a node hands back: the requests it issued, whether an
\* exception left it, and the value it returned
NoCall(ret) == [calls |-> <<>>, raised |-> FALSE, ret |-> ret]
Raised(calls) == [calls |-> calls, raised |-> TRUE, ret |-> None]
Returned(calls, ret) == [calls |-> calls, raised |-> FALSE, ret |-> ret]

\* str(x) as an f-string renders x
PyToStr(x) ==
  CASE x.k = "str" -> x.v
    [] x.k = "int" -> IntToStr(x.v)
    [] x.k = "bool" -> IF x.v THEN <<"T","r","u","e">> ELSE <<"F","a","l","s","e">>
    [] x.k = "dict" -> <<"{",".",".",".","}">>
    [] x.k = "list" -> <<"[",".",".",".","]">>
    [] OTHER -> <<"N","o","n","e">>

\* {"error": f"GitHub API Error: {response.status_code}", "details": response.text}
GithubError(resp) ==
  PyDict([error |-> PyStr(<<"G","i","t","H","u","b"," ","A","P","I"," ","E","r","r","o","r",":"," ">> \o IntToStr(resp.status)),
          details |-> PyStr(resp.text)])

\* a helper that would take every 2xx status for a success
GithubRequestAny2xx(req, resp, ok_statuses) ==
  IF resp.kind # "response" THEN Raised(<<req>>)
  ELSE IF resp.status \notin 200..299 THEN Returned(<<req>>, GithubError(resp))
  ELSE IF resp.json = Undecodable THEN Raised(<<req>>)
  ELSE Returned(<<req>>, resp.json)

\* requests.get / requests.post, the status check and response.json()
GithubRequest(req, resp, ok_statuses) ==
  IF resp.kind # "response" THEN Raised(<<req>>)
  ELSE IF resp.status \notin ok_statuses THEN Returned(<<req>>, GithubError(resp))
  ELSE IF resp.json = Undecodable THEN Raised(<<req>>)
  ELSE Returned(<<req>>, resp.json)

call_list_github_branches(repo_name, resp) ==
  IF ~Truthy(repo_name) THEN NoCall(PyDict([error |-> PyStr(<<"R","e","p","o","s","i","t","o","r","y"," ","n","a","m","e"," ","n","o","t"," ","p","r","o","v","i","d","e","d">>)]))
  ELSE GithubRequest(Request("GET", "branches", repo_name, None, None), resp, {200})

call_get_github_branch(repo_name, branch_name, resp) ==
  IF ~Truthy(repo_name) \/ ~Truthy(branch_name)
  THEN NoCall(PyDict([error |-> PyStr(<<"R","e","p","o","s","i","t","o","r","y"," ","n","a","m","e"," ","o","r"," ","b","r","a","n","c","h"," ","n","a","m","e"," ","n","o","t"," ","p","r","o","v","i","d","e","d">>)]))
  ELSE GithubRequest(Request("GET", "branches/{name}", repo_name, branch_name, None), resp, {200})

\* json()["object"]["sha"] of the source-branch lookup
HasSha(json) ==
  /\ json.k = "dict" /\ "object" \in DOMAIN json.v
  /\ json.v["object"].k = "dict" /\ "sha" \in DOMAIN json.v["object"].v

\* a lookup that would read the SHA without looking at the status
lookup_ignoring_status(repo_name, branch_name, source_branch, resp) ==
  LET req == Request("GET", "git/refs/heads/{name}", repo_name, source_branch, None)
      stop(r) == [calls |-> r.calls, raised |-> r.raised, ret |-> r.ret, go |-> FALSE]
  IN IF ~Truthy(repo_name) \/ ~Truthy(branch_name)
     THEN stop(NoCall(PyDict([error |-> PyStr(<<"R","e","p","o","s","i","t","o","r","y"," ","n","a","m","e"," ","o","r"," ","b","r","a","n","c","h"," ","n","a","m","e"," ","n","o","t"," ","p","r","o","v","i","d","e","d">>)])))
     ELSE IF resp.kind # "response" \/ ~HasSha(resp.json) THEN stop(Raised(<<req>>))
     ELSE [calls |-> <<req>>, raised |-> FALSE, ret |-> resp.json.v["object"].v["sha"], go |-> TRUE]

\* _call_create_github_branch up to source_sha: ret is the SHA when the helper
\* goes on to the create-ref request (go), and the helper's result otherwise
call_create_github_branch_lookup(repo_name, branch_name, source_branch, resp) ==
  LET req == Request("GET", "git/refs/heads/{name}", repo_name, source_branch, None)
      stop(r) == [calls |-> r.calls, raised |-> r.raised, ret |-> r.ret, go |-> FALSE]
  IN IF ~Truthy(repo_name) \/ ~Truthy(branch_name)
     THEN stop(NoCall(PyDict([error |-> PyStr(<<"R","e","p","o","s","i","t","o","r","y"," ","n","a","m","e"," ","o","r"," ","b","r","a","n","c","h"," ","n","a","m","e"," ","n","o","t"," ","p","r","o","v","i","d","e","d">>)])))
     ELSE IF resp.kind # "response" THEN stop(Raised(<<req>>))
     ELSE IF resp.status # 200
     THEN stop(Returned(<<req>>,
            PyDict([error |-> PyStr(<<"C","o","u","l","d"," ","n","o","t"," ","f","i","n","d"," ","s","o","u","r","c","e"," ","b","r","a","n","c","h"," ","'">> \o PyToStr(source_branch) \o <<"'">>),
                    details |-> PyStr(resp.text)])))
     ELSE IF ~HasSha(resp.json) THEN stop(Raised(<<req>>))
     ELSE [calls |-> <<req>>, raised |-> FALSE, ret |-> resp.json.v["object"].v["sha"], go |-> TRUE]

\* _call_create_github_branch from create_url on
call_create_github_branch_ref(repo_name, branch_name, source_sha, resp) ==
  GithubRequest(Request("POST", "git/refs", repo_name, None,
                        PyDict([ref |-> PyStr(<<"r","e","f","s","/","h","e","a","d","s","/">> \o PyToStr(branch_name)),
                                sha |-> source_sha])),
                resp, {200, 201})

call_create_github_issue(repo_name, title, body, resp) ==
  IF ~Truthy(repo_name) THEN NoCall(PyDict([error |-> PyStr(<<"R","e","p","o","s","i","t","o","r","y"," ","n","a","m","e"," ","n","o","t"," ","f","o","u","n","d"," ","i","n"," ","q","u","e","r","y">>)]))
  ELSE IF ~Truthy(title) THEN NoCall(PyDict([error |-> PyStr(<<"I","s","s","u","e"," ","t","i","t","l","e"," ","n","o","t"," ","p","r","o","v","i","d","e","d">>)]))
  ELSE GithubRequest(
         Request("POST", "issues", repo_name, None,
                 PyDict([title |-> title,
                         body |-> Or(body, PyStr(<<"I","s","s","u","e"," ","c","r","e","a","t","e","d"," ","v","i","a"," ","A","u","t","o","F","l","o","w","B","o","t"," ","b","a","s","e","d"," ","o","n"," ","u","s","e","r"," ","q","u","e","r","y",".">>))])),
         resp, {200, 201})

call_list_github_issues(repo_name, resp) ==
  IF ~Truthy(repo_name) THEN NoCall(PyDict([error |-> PyStr(<<"R","e","p","o","s","i","t","o","r","y"," ","n","a","m","e"," ","n","o","t"," ","p","r","o","v","i","d","e","d">>)]))
  ELSE GithubRequest(Request("GET", "issues", repo_name, None, None), resp, {200})

call_get_github_issue(repo_name, issue_number, resp) ==
  IF ~Truthy(repo_name) \/ ~Truthy(issue_number)
  THEN NoCall(PyDict([error |-> PyStr(<<"R","e","p","o","s","i","t","o","r","y"," ","n","a","m","e"," ","o","r"," ","i","s","s","u","e"," ","n","u","m","b","e","r"," ","n","o","t"," ","p","r","o","v","i","d","e","d">>)]))
  ELSE GithubRequest(Request("GET", "issues/{n}", repo_name, issue_number, None), resp, {200})

call_comment_on_github_issue(repo_name, issue_number, comment_body, resp) ==
  IF ~Truthy(repo_name) \/ ~Truthy(issue_number) \/ ~Truthy(comment_body)
  THEN NoCall(PyDict([error |-> PyStr(<<"R","e","p","o","s","i","t","o","r","y"," ","n","a","m","e",","," ","i","s","s","u","e"," ","n","u","m","b","e","r",","," ","o","r"," ","c","o","m","m","e","n","t"," ","b","o","d","y"," ","n","o","t"," ","p","r","o","v","i","d","e","d">>)]))
  ELSE GithubRequest(Request("POST", "issues/{n}/comments", repo_name, issue_number,
                             PyDict([body |-> comment_body])),
                     resp, {200, 201})

(***************************************************************************)
(* _call_send_slack_message, one request at a time.  A step hands back the *)
(* requests it issued and either the helper's result (next = "return") or *)
(* the step that follows, with the helper's local variables.               *)
(***************************************************************************)
SlackFail(error) == PyDict([ok |-> PyBool(FALSE), error |-> PyStr(error)])
SlackReturn(calls, ret, local) == [calls |-> calls, next |-> "return", ret |-> ret, local |-> local]
SlackNext(calls, next, local) == [calls |-> calls, next |-> next, ret |-> None, local |-> local]

\* the except clauses around the whole helper
SlackTimeout == SlackFail(<<"S","l","a","c","k"," ","A","P","I"," ","t","i","m","e","o","u","t">>)
SlackConnectionError == SlackFail(<<"S","l","a","c","k"," ","A","P","I"," ","c","o","n","n","e","c","t","i","o","n"," ","e","r","r","o","r",":"," ","c","o","n","n","e","c","t","i","o","n"," ","f","a","i","l","e","d">>)
SlackUnexpected(text) == SlackFail(<<"U","n","e","x","p","e","c","t","e","d"," ","e","r","r","o","r",":"," ">> \o text)
JsonError == <<"E","x","p","e","c","t","i","n","g"," ","v","a","l","u","e",":"," ","l","i","n","e"," ","1"," ","c","o","l","u","m","n"," ","1"," ","(","c","h","a","r"," ","0",")">>
NoLstrip == <<"'","N","o","n","e","T","y","p","e","'"," ","o","b","j","e","c","t"," ","h","a","s"," ","n","o"," ","a","t","t","r","i","b","u","t","e"," ","'","l","s","t","r","i","p","'">>
NoGet == <<"'","l","i","s","t","'"," ","o","b","j","e","c","t"," ","h","a","s"," ","n","o"," ","a","t","t","r","i","b","u","t","e"," ","'","g","e","t","'">>

\* client.get / client.post and response.json(): the result of the except
\* clause that catches the failure, None when the response decodes to a dict
SlackCaught(resp) ==
  IF resp.kind = "timeout" THEN SlackTimeout
  ELSE IF resp.kind = "connection" THEN SlackConnectionError
  ELSE IF resp.json = Undecodable THEN SlackUnexpected(JsonError)
  ELSE IF resp.json.k # "dict" THEN SlackUnexpected(NoGet)
  ELSE None

\* s.lstrip(c)
RECURSIVE LStrip(_, _)
LStrip(s, c) == IF s # <<>> /\ Head(s) = c THEN LStrip(Tail(s), c) ELSE s

MemberIs(member, user) ==
  \/ DictGet(member, "name", None) = user
  \/ DictGet(DictGet(member, "profile", PyDict(<<>>)), "display_name", None) = user
  \/ DictGet(member, "real_name", None) = user

\* for member in members: if <member is user>: user_id = member.get("id"); break
RECURSIVE FirstMemberId(_, _, _)
FirstMemberId(members, j, user) ==
  IF j > Len(members) THEN None
  ELSE IF MemberIs(members[j], user) THEN DictGet(members[j], "id", None)
  ELSE FirstMemberId(members, j + 1, user)

\* for ch in channels: if ch.get("name") == channel_name: channel_id = ch.get("id"); break
RECURSIVE FirstChannelId(_, _, _)
FirstChannelId(channels, j, channel_name) ==
  IF j > Len(channels) THEN None
  ELSE IF DictGet(channels[j], "name", None) = channel_name
       THEN DictGet(channels[j], "id", None)
  ELSE FirstChannelId(channels, j + 1, channel_name)

\* a helper that would take its default channel for the channel None
slack_begin_default_channel(message, channel, user) ==
  LET local == [message |-> message, channel |-> channel, user |-> user,
                user_id |-> None, channel_name |-> None, channel_id |-> None]
  IN IF Truthy(user) THEN SlackNext(<<>>, "users.list", local)
     ELSE SlackNext(<<>>, "conversations.list",
                    [local EXCEPT !.channel_name =
                       PyStr(LStrip(IF channel.k = "str" THEN channel.v ELSE <<"#","g","e","n","e","r","a","l">>, "#"))])

\* from the helper's entry to its first request
slack_begin(message, channel, user) ==
  LET local == [message |-> message, channel |-> channel, user |-> user,
                user_id |-> None, channel_name |-> None, channel_id |-> None]
  IN IF Truthy(user) THEN SlackNext(<<>>, "users.list", local)
     ELSE IF channel.k # "str" THEN SlackReturn(<<>>, SlackUnexpected(NoLstrip), local)
     ELSE SlackNext(<<>>, "conversations.list",
                    [local EXCEPT !.channel_name = PyStr(LStrip(channel.v, "#"))])

slack_users_list(local, resp) ==
  LET req == Request("GET", "users.list", None, None, None)
      users_data == resp.json
      error_msg == DictGet(users_data, "error", PyStr(<<"U","n","k","n","o","w","n"," ","e","r","r","o","r">>))
      user_id == FirstMemberId(DictGet(users_data, "members", PyList(<<>>)).v, 1, local.user)
  IN IF resp.kind = "response" /\ resp.status # 200
     THEN SlackReturn(<<req>>, SlackFail(<<"H","T","T","P"," ","e","r","r","o","r"," ">> \o IntToStr(resp.status)
                                           \o <<" ","w","h","e","n"," ","l","i","s","t","i","n","g"," ","u","s","e","r","s">>), local)
     ELSE IF SlackCaught(resp) # None THEN SlackReturn(<<req>>, SlackCaught(resp), local)
     ELSE IF ~Truthy(DictGet(users_data, "ok", None))
     THEN IF error_msg = PyStr(<<"i","n","v","a","l","i","d","_","a","u","t","h">>)
          THEN SlackReturn(<<req>>, SlackFail(<<"I","n","v","a","l","i","d"," ","S","l","a","c","k"," ","t","o","k","e","n">>), local)
          ELSE SlackReturn(<<req>>, SlackFail(<<"C","o","u","l","d"," ","n","o","t"," ","l","i","s","t"," ","u","s","e","r","s",":"," ">> \o PyToStr(error_msg)), local)
     ELSE IF ~Truthy(user_id)
     THEN SlackReturn(<<req>>, SlackFail(<<"U","s","e","r"," ","'">> \o PyToStr(local.user) \o <<"'"," ","n","o","t"," ","f","o","u","n","d">>), local)
     ELSE SlackNext(<<req>>, "conversations.open", [local EXCEPT !.user_id = user_id])

slack_conversations_open(local, resp) ==
  LET req == Request("POST", "conversations.open", None, None, PyDict([users |-> local.user_id]))
      dm_result == resp.json
      error_msg == DictGet(dm_result, "error", PyStr(<<"U","n","k","n","o","w","n"," ","e","r","r","o","r">>))
      channel == DictGet(dm_result, "channel", PyDict(<<>>))
  IN IF resp.kind = "response" /\ resp.status # 200
     THEN SlackReturn(<<req>>, SlackFail(<<"H","T","T","P"," ","e","r","r","o","r"," ">> \o IntToStr(resp.status)
                                           \o <<" ","w","h","e","n"," ","o","p","e","n","i","n","g"," ","D","M">>), local)
     ELSE IF SlackCaught(resp) # None THEN SlackReturn(<<req>>, SlackCaught(resp), local)
     ELSE IF ~Truthy(DictGet(dm_result, "ok", None))
     THEN SlackReturn(<<req>>, SlackFail(<<"C","o","u","l","d"," ","n","o","t"," ","o","p","e","n"," ","D","M",":"," ">> \o PyToStr(error_msg)), local)
     ELSE SlackNext(<<req>>, "chat.postMessage",
                    [local EXCEPT !.channel_id = DictGet(channel, "id", None)])

slack_conversations_list(local, resp) ==
  LET req == Request("GET", "conversations.list", None, None, None)
      channels_data == resp.json
      error_msg == DictGet(channels_data, "error", PyStr(<<"U","n","k","n","o","w","n"," ","e","r","r","o","r">>))
      channel_id == FirstChannelId(DictGet(channels_data, "channels", PyList(<<>>)).v, 1,
                                   local.channel_name)
  IN IF resp.kind = "response" /\ resp.status # 200
     THEN SlackReturn(<<req>>, SlackFail(<<"H","T","T","P"," ","e","r","r","o","r"," ">> \o IntToStr(resp.status)
                                           \o <<" ","w","h","e","n"," ","l","i","s","t","i","n","g"," ","c","h","a","n","n","e","l","s">>), local)
     ELSE IF SlackCaught(resp) # None THEN SlackReturn(<<req>>, SlackCaught(resp), local)
     ELSE IF ~Truthy(DictGet(channels_data, "ok", None))
     THEN IF error_msg = PyStr(<<"i","n","v","a","l","i","d","_","a","u","t","h">>)
          THEN SlackReturn(<<req>>, SlackFail(<<"I","n","v","a","l","i","d"," ","S","l","a","c","k"," ","t","o","k","e","n">>), local)
          ELSE SlackReturn(<<req>>, SlackFail(<<"C","o","u","l","d"," ","n","o","t"," ","l","i","s","t"," ","c","h","a","n","n","e","l","s",":"," ">> \o PyToStr(error_msg)), local)
     ELSE IF ~Truthy(channel_id)
     THEN SlackNext(<<req>>, "conversations.list private", local)
     ELSE SlackNext(<<req>>, "chat.postMessage", [local EXCEPT !.channel_id = channel_id])

slack_private_channels_list(local, resp) ==
  LET req == Request("GET", "conversations.list private", None, None, None)
      private_data == resp.json
      channel_id ==
        IF resp.status = 200 /\ Truthy(DictGet(private_data, "ok", None))
        THEN FirstChannelId(DictGet(private_data, "channels", PyList(<<>>)).v, 1,
                            local.channel_name)
        ELSE None
  IN IF resp.kind # "response" THEN SlackReturn(<<req>>, SlackCaught(resp), local)
     ELSE IF resp.status = 200 /\ SlackCaught(resp) # None
     THEN SlackReturn(<<req>>, SlackCaught(resp), local)
     ELSE IF ~Truthy(channel_id)
     THEN SlackReturn(<<req>>,
            SlackFail(<<"C","h","a","n","n","e","l"," ","'">> \o PyToStr(local.channel_name)
                      \o <<"'"," ","n","o","t"," ","f","o","u","n","d","."," ","B","o","t"," ","m","a","y"," ","n","o","t"," ","b","e"," ","a","d","d","e","d"," ","t","o"," ","t","h","i","s"," ","c","h","a","n","n","e","l",".">>), local)
     ELSE SlackNext(<<req>>, "chat.postMessage", [local EXCEPT !.channel_id = channel_id])

slack_post_message(local, resp) ==
  LET req == Request("POST", "chat.postMessage", None, None,
                     PyDict([channel |-> local.channel_id, text |-> local.message]))
      result == resp.json
      error_msg == DictGet(result, "error", PyStr(<<"U","n","k","n","o","w","n"," ","e","r","r","o","r">>))
  IN IF resp.kind = "response" /\ resp.status # 200
     THEN SlackReturn(<<req>>, SlackFail(<<"H","T","T","P"," ","e","r","r","o","r"," ">> \o IntToStr(resp.status)
                                           \o <<" ","w","h","e","n"," ","s","e","n","d","i","n","g"," ","m","e","s","s","a","g","e">>), local)
     ELSE IF SlackCaught(resp) # None THEN SlackReturn(<<req>>, SlackCaught(resp), local)
     ELSE IF ~Truthy(DictGet(result, "ok", None))
     THEN IF error_msg = PyStr(<<"i","n","v","a","l","i","d","_","a","u","t","h">>)
          THEN SlackReturn(<<req>>, SlackFail(<<"I","n","v","a","l","i","d"," ","S","l","a","c","k"," ","t","o","k","e","n">>), local)
          ELSE IF error_msg = PyStr(<<"c","h","a","n","n","e","l","_","n","o","t","_","f","o","u","n","d">>)
          THEN SlackReturn(<<req>>, SlackFail(<<"C","h","a","n","n","e","l"," ","n","o","t"," ","f","o","u","n","d"," ","o","r"," ","b","o","t"," ","n","o","t"," ","a","d","d","e","d"," ","t","o"," ","c","h","a","n","n","e","l">>), local)
          ELSE IF error_msg = PyStr(<<"n","o","t","_","i","n","_","c","h","a","n","n","e","l">>)
          THEN SlackReturn(<<req>>, SlackFail(<<"B","o","t"," ","i","s"," ","n","o","t"," ","a"," ","m","e","m","b","e","r"," ","o","f"," ","t","h","e"," ","c","h","a","n","n","e","l">>), local)
          ELSE SlackReturn(<<req>>, SlackFail(<<"C","o","u","l","d"," ","n","o","t"," ","s","e","n","d"," ","m","e","s","s","a","g","e",":"," ">> \o PyToStr(error_msg)), local)
     ELSE SlackReturn(<<req>>, result, local)

(***************************************************************************)
(* WorkflowState and the nodes of the graph.  A node hands back the        *)
(* requests it issued, whether an exception left it, and the dict it       *)
(* returned (delta), which the graph merges into the state.                *)
(***************************************************************************)
\* process_query's initial_state; branch_name and source_branch are keys of
\* WorkflowState the initial state does not hold
initial_state(user_query) ==
  [user_query |-> PyStr(user_query), action_type |-> None, repo_name |-> None,
   issue_number |-> None, comment_body |-> None, issue_title |-> None,
   issue_body |-> None, api_response |-> None, error_message |-> None,
   branch_name |-> Absent, source_branch |-> Absent]

\* state.get(key, default)
Get(st, key, default) == IF st[key] = Absent THEN default ELSE st[key]

\* the graph's update of the state by a node's dict: a key that is no channel
\* of WorkflowState is dropped
Merge(st, delta) == [key \in DOMAIN st |-> IF key \in DOMAIN delta THEN delta[key] ELSE st[key]]

NodeDone(calls, delta) == [calls |-> calls, raised |-> FALSE, delta |-> delta]
\* a missing-parameter return that would leave error_message unset
ParamsMissingSilent(error, error_message) ==
  NodeDone(<<>>, [api_response |-> PyDict([error |-> PyStr(error)])])

\* return {"api_response": {"error": ...}, "error_message": ...}
ParamsMissing(error, error_message) ==
  NodeDone(<<>>, [api_response |-> PyDict([error |-> PyStr(error)]),
                  error_message |-> PyStr(error_message)])
\* response = self._call_...(...); return {"api_response": response}
FromCall(r) == [calls |-> r.calls, raised |-> r.raised, delta |-> [api_response |-> r.ret]]

create_issue_node(st, resp) ==
  LET repo_name == Get(st, "repo_name", None)
      title == Or(Get(st, "issue_title", None),
                  PyStr(<<"I","s","s","u","e"," ","f","r","o","m"," ","q","u","e","r","y",":"," ">> \o Prefix(st.user_query.v, TitleLen) \o <<".",".",".">>))
      body == Or(Get(st, "issue_body", None),
                 PyStr(<<"D","e","t","a","i","l","s"," ","b","a","s","e","d"," ","o","n"," ","u","s","e","r"," ","q","u","e","r","y",":"," ">> \o st.user_query.v))
  IN IF ~Truthy(repo_name)
     THEN ParamsMissing(<<"R","e","p","o","s","i","t","o","r","y"," ","n","a","m","e"," ","n","o","t"," ","e","x","t","r","a","c","t","e","d"," ","f","o","r"," ","c","r","e","a","t","i","n","g"," ","i","s","s","u","e",".">>, <<"R","e","p","o"," ","n","a","m","e"," ","m","i","s","s","i","n","g">>)
     ELSE FromCall(call_create_github_issue(repo_name, title, body, resp))

list_issues_node(st, resp) ==
  LET repo_name == Get(st, "repo_name", None)
  IN IF ~Truthy(repo_name)
     THEN ParamsMissing(<<"R","e","p","o","s","i","t","o","r","y"," ","n","a","m","e"," ","n","o","t"," ","e","x","t","r","a","c","t","e","d"," ","f","o","r"," ","l","i","s","t","i","n","g"," ","i","s","s","u","e","s",".">>, <<"R","e","p","o"," ","n","a","m","e"," ","m","i","s","s","i","n","g">>)
     ELSE FromCall(call_list_github_issues(repo_name, resp))

get_issue_node(st, resp) ==
  LET repo_name == Get(st, "repo_name", None)
      issue_number == Get(st, "issue_number", None)
  IN IF ~Truthy(repo_name) \/ ~Truthy(issue_number)
     THEN ParamsMissing(<<"R","e","p","o"," ","n","a","m","e"," ","o","r"," ","i","s","s","u","e"," ","n","u","m","b","e","r"," ","n","o","t"," ","e","x","t","r","a","c","t","e","d",".">>, <<"R","e","p","o","/","I","s","s","u","e"," ","n","u","m"," ","m","i","s","s","i","n","g">>)
     ELSE FromCall(call_get_github_issue(repo_name, issue_number, resp))

comment_issue_node(st, resp) ==
  LET repo_name == Get(st, "repo_name", None)
      issue_number == Get(st, "issue_number", None)
      comment_body == Get(st, "comment_body", None)
  IN IF ~Truthy(repo_name) \/ ~Truthy(issue_number) \/ ~Truthy(comment_body)
     THEN ParamsMissing(<<"R","e","p","o",","," ","i","s","s","u","e"," ","n","u","m",","," ","o","r"," ","c","o","m","m","e","n","t"," ","n","o","t"," ","e","x","t","r","a","c","t","e","d",".">>, <<"P","a","r","a","m","s"," ","m","i","s","s","i","n","g"," ","f","o","r"," ","c","o","m","m","e","n","t">>)
     ELSE FromCall(call_comment_on_github_issue(repo_name, issue_number, comment_body, resp))

list_branches_node(st, resp) ==
  LET repo_name == Get(st, "repo_name", None)
  IN IF ~Truthy(repo_name)
     THEN ParamsMissing(<<"R","e","p","o","s","i","t","o","r","y"," ","n","a","m","e"," ","n","o","t"," ","e","x","t","r","a","c","t","e","d"," ","f","o","r"," ","l","i","s","t","i","n","g"," ","b","r","a","n","c","h","e","s",".">>, <<"R","e","p","o"," ","n","a","m","e"," ","m","i","s","s","i","n","g">>)
     ELSE FromCall(call_list_github_branches(repo_name, resp))

get_branch_node(st, resp) ==
  LET repo_name == Get(st, "repo_name", None)
      branch_name == Get(st, "branch_name", None)
  IN IF ~Truthy(repo_name) \/ ~Truthy(branch_name)
     THEN ParamsMissing(<<"R","e","p","o","s","i","t","o","r","y"," ","n","a","m","e"," ","o","r"," ","b","r","a","n","c","h"," ","n","a","m","e"," ","n","o","t"," ","e","x","t","r","a","c","t","e","d",".">>, <<"R","e","p","o","/","B","r","a","n","c","h"," ","n","a","m","e"," ","m","i","s","s","i","n","g">>)
     ELSE FromCall(call_get_github_branch(repo_name, branch_name, resp))

\* _create_branch_node up to the source-branch lookup of the helper it calls;
\* go tells that the helper goes on to the create-ref request with the SHA sha
create_branch_node(st, resp) ==
  LET repo_name == Get(st, "repo_name", None)
      branch_name == Get(st, "branch_name", None)
      source_branch == Get(st, "source_branch", PyStr(<<"m","a","i","n">>))
      r == call_create_github_branch_lookup(repo_name, branch_name, source_branch, resp)
  IN IF ~Truthy(repo_name) \/ ~Truthy(branch_name)
     THEN ParamsMissing(<<"R","e","p","o","s","i","t","o","r","y"," ","n","a","m","e"," ","o","r"," ","b","r","a","n","c","h"," ","n","a","m","e"," ","n","o","t"," ","e","x","t","r","a","c","t","e","d",".">>, <<"R","e","p","o","/","B","r","a","n","c","h"," ","n","a","m","e"," ","m","i","s","s","i","n","g">>)
          @@ [go |-> FALSE, sha |-> None]
     ELSE FromCall(r) @@ [go |-> r.go, sha |-> r.ret]

\* the rest of _create_branch_node: the create-ref request and the return
create_branch_node_ref(st, source_sha, resp) ==
  FromCall(call_create_github_branch_ref(Get(st, "repo_name", None),
                                         Get(st, "branch_name", None), source_sha, resp))

\* _slack_message_node up to the helper's first request
slack_message_node(st) ==
  LET slack_target == extract_slack_target(st.user_query.v)
      message == slack_target.message
      user == slack_target.user
      channel == IF ~Truthy(user) THEN slack_target.channel ELSE None
  IN slack_begin(message, channel, user)

needs_clarification_node(st) ==
  LET repo_name == Get(st, "repo_name", PyStr(<<"t","h","e"," ","r","e","p","o","s","i","t","o","r","y">>))
  IN NodeDone(<<>>,
       [api_response |->
          PyDict([message |-> PyStr(<<"I"," ","u","n","d","e","r","s","t","a","n","d"," ","y","o","u"," ","w","a","n","t"," ","t","o"," ","c","r","e","a","t","e"," ","a","n"," ","i","s","s","u","e"," ","i","n"," ">>
                                    \o PyToStr(repo_name)
                                    \o <<"."," ","W","h","a","t"," ","s","p","e","c","i","f","i","c"," ","p","r","o","b","l","e","m"," ","o","r"," ","f","e","a","t","u","r","e"," ","w","o","u","l","d"," ","y","o","u"," ","l","i","k","e"," ","t","o"," ","r","e","p","o","r","t","?">>),
                  type |-> PyStr(<<"c","l","a","r","i","f","i","c","a","t","i","o","n","_","r","e","q","u","e","s","t">>),
                  context |-> PyStr(<<"i","s","s","u","e","_","c","r","e","a","t","i","o","n">>)])])

FallbackGreeting ==
  <<"H","e","l","l","o","!"," ","I","'","m"," ","D","e","v","C","a","s","c","a","d","e",","," ","y","o","u","r"," ","D","e","v","O","p","s"," ","a","u","t","o","m","a","t","i","o","n"," ","a","s","s","i","s","t","a","n","t","."," ","H","o","w"," ","c","a","n"," ","I"," ","h","e","l","p"," ","y","o","u"," ","t","o","d","a","y","?">>

\* the model call of the node raises, or replies with a text
general_response_node(st, reply) ==
  NodeDone(<<[method |-> "generate_content", endpoint |-> "gemini", repo |-> None,
              item |-> None, data |-> None]>>,
           [api_response |->
              PyDict([message |-> PyStr(IF reply.raised THEN FallbackGreeting ELSE Strip(reply.text)),
                      type |-> PyStr(<<"g","e","n","e","r","a","l","_","c","o","n","v","e","r","s","a","t","i","o","n">>)])])

Suggestions ==
  <<PyStr(<<"T","r","y",":"," ","'","c","r","e","a","t","e"," ","a","n"," ","i","s","s","u","e"," ","i","n"," ","r","e","p","o"," ","m","y","-","p","r","o","j","e","c","t","'">>),
    PyStr(<<"T","r","y",":"," ","'","l","i","s","t"," ","i","s","s","u","e","s"," ","i","n"," ","r","e","p","o","s","i","t","o","r","y"," ","b","a","c","k","e","n","d","'">>),
    PyStr(<<"T","r","y",":"," ","'","s","h","o","w"," ","i","s","s","u","e"," ","#","1","2","3"," ","i","n"," ","r","e","p","o"," ","f","r","o","n","t","e","n","d","'">>),
    PyStr(<<"T","r","y",":"," ","'","s","e","n","d"," ","a"," ","m","e","s","s","a","g","e"," ","t","o"," ","t","h","e"," ","t","e","a","m","'">>)>>

unhandled_action_node(st) ==
  NodeDone(<<>>,
       [api_response |->
          PyDict([message |-> PyStr(<<"I"," ","d","i","d","n","'","t"," ","u","n","d","e","r","s","t","a","n","d"," ","y","o","u","r"," ","r","e","q","u","e","s","t","."," ","H","e","r","e"," ","a","r","e"," ","s","o","m","e"," ","t","h","i","n","g","s"," ","y","o","u"," ","c","a","n"," ","t","r","y",":">>),
                  suggestions |-> PyList(Suggestions),
                  your_request |-> st.user_query])])

(***************************************************************************)
(* The dispatch graph                                                      *)
(***************************************************************************)
\* the mapping of add_conditional_edges
DispatchTable ==
  (github_create_issue :> "github_create_issue_node")
  @@ (github_list_issues :> "github_list_issues_node")
  @@ (github_get_issue :> "github_get_issue_node")
  @@ (github_comment_issue :> "github_comment_issue_node")
  @@ (slack_send_message :> "slack_message_node")
  @@ (unhandled :> "unhandled_action_node")
  @@ (general_response :> "general_response_node")
  @@ (needs_clarification :> "needs_clarification_node")
  @@ (github_list_branches :> "github_list_branches_node")
  @@ (github_get_branch :> "github_get_branch_node")
  @@ (github_create_branch :> "github_create_branch_node")

\* lambda state: state.get("action_type", "unhandled")
RouteKey(st) == Get(st, "action_type", PyStr(unhandled))

\* the node the conditional edge leads to; "KeyError" when the key the lambda
\* returns is no key of the mapping
Route(st) ==
  IF RouteKey(st).k = "str" /\ RouteKey(st).v \in DOMAIN DispatchTable
  THEN DispatchTable[RouteKey(st).v]
  ELSE "KeyError"

(***************************************************************************)
(* The response formatter                                                  *)
(***************************************************************************)
\* the keys of the dicts the program builds, in the order it inserts them,
\* then those of the services' replies; KeyText gives each key's characters
KeyOrder ==
  <<"message", "type", "context", "suggestions", "your_request", "ok", "error", "details",
    "number", "title", "html_url", "name", "commit", "sha", "protected", "ref", "object",
    "channel", "ts", "id", "members", "channels", "profile", "display_name", "real_name",
    "body", "text", "users">>
KeyText ==
  <<<<"m","e","s","s","a","g","e">>, <<"t","y","p","e">>, <<"c","o","n","t","e","x","t">>, <<"s","u","g","g","e","s","t","i","o","n","s">>, <<"y","o","u","r","_","r","e","q","u","e","s","t">>, <<"o","k">>, <<"e","r","r","o","r">>,
    <<"d","e","t","a","i","l","s">>, <<"n","u","m","b","e","r">>, <<"t","i","t","l","e">>, <<"h","t","m","l","_","u","r","l">>, <<"n","a","m","e">>, <<"c","o","m","m","i","t">>, <<"s","h","a">>,
    <<"p","r","o","t","e","c","t","e","d">>, <<"r","e","f">>, <<"o","b","j","e","c","t">>, <<"c","h","a","n","n","e","l">>, <<"t","s">>, <<"i","d">>, <<"m","e","m","b","e","r","s">>,
    <<"c","h","a","n","n","e","l","s">>, <<"p","r","o","f","i","l","e">>, <<"d","i","s","p","l","a","y","_","n","a","m","e">>, <<"r","e","a","l","_","n","a","m","e">>, <<"b","o","d","y">>, <<"t","e","x","t">>, <<"u","s","e","r","s">>>>
RECURSIVE Repeat(_, _)
Repeat(s, n) == IF n = 0 THEN <<>> ELSE s \o Repeat(s, n - 1)

\* json.dumps(x, indent=2), level being the depth of x
RECURSIVE JsonDumps(_, _)
RECURSIVE JsonItems(_, _, _)
RECURSIVE JsonMembers(_, _, _)
JsonItems(l, j, level) ==
  IF j > Len(l) THEN <<>>
  ELSE Repeat(<<" "," ">>, level) \o JsonDumps(l[j], level)
       \o (IF j < Len(l) THEN <<",","\n">> ELSE <<>>) \o JsonItems(l, j + 1, level)
JsonMembers(d, j, level) ==
  IF j > Len(KeyOrder) THEN <<>>
  ELSE (IF KeyOrder[j] \in DOMAIN d
        THEN Repeat(<<" "," ">>, level) \o <<"\"">> \o KeyText[j] \o <<"\"",":"," ">> \o JsonDumps(d[KeyOrder[j]], level)
             \o (IF \E i \in (j + 1)..Len(KeyOrder) : KeyOrder[i] \in DOMAIN d THEN <<",","\n">> ELSE <<>>)
        ELSE <<>>)
       \o JsonMembers(d, j + 1, level)
JsonDumps(x, level) ==
  CASE x.k = "none" -> <<"n","u","l","l">>
    [] x.k = "bool" -> IF x.v THEN <<"t","r","u","e">> ELSE <<"f","a","l","s","e">>
    [] x.k = "int" -> IntToStr(x.v)
    [] x.k = "str" -> <<"\"">> \o x.v \o <<"\"">>
    [] x.k = "list" ->
         IF x.v = <<>> THEN <<"[","]">>
         ELSE <<"[","\n">> \o JsonItems(x.v, 1, level + 1) \o <<"\n">> \o Repeat(<<" "," ">>, level) \o <<"]">>
    [] x.k = "dict" ->
         IF DOMAIN x.v = {} THEN <<"{","}">>
         ELSE <<"{","\n">> \o JsonMembers(x.v, 1, level + 1) \o <<"\n">> \o Repeat(<<" "," ">>, level) \o <<"}">>

Out(text) == [raised |-> FALSE, out |-> PyStr(text)]
FormatRaises == [raised |-> TRUE, out |-> None]
Repo(st) == PyToStr(Get(st, "repo_name", None))
ListShown == 3
BranchesShown == 10
ShaShown == 8

\* f"#{issue['number']} - {issue['title']}" for the issues of l from j on
RECURSIVE IssueLines(_, _, _)
IssueLines(l, j, last) ==
  IF j > last THEN <<>>
  ELSE <<<<"#">> \o PyToStr(l[j].v["number"]) \o <<" ","-"," ">> \o PyToStr(l[j].v["title"])>>
       \o IssueLines(l, j + 1, last)
IssueOk(issue) == issue.k = "dict" /\ {"number", "title"} \subseteq DOMAIN issue.v

RECURSIVE BranchLines(_, _, _)
BranchLines(l, j, last) ==
  IF j > last THEN <<>>
  ELSE <<<<"U+2022"," ">> \o PyToStr(l[j].v["name"])
         \o (IF Truthy(DictGet(l[j], "protected", None)) THEN <<" ","(","d","e","f","a","u","l","t",")">> ELSE <<>>)>>
       \o BranchLines(l, j + 1, last)
BranchOk(branch) == branch.k = "dict" /\ "name" \in DOMAIN branch.v

RECURSIVE SuggestionLines(_, _)
SuggestionLines(l, j) ==
  IF j > Len(l) THEN <<>> ELSE <<<<"U+2022"," ">> \o PyToStr(l[j])>> \o SuggestionLines(l, j + 1)

Min(a, b) == IF a < b THEN a ELSE b

\* the per-intent templates of _format_response
FormatByIntent(st, action_type, api_response) ==
  LET isdict == api_response.k = "dict"
      get(key) == DictGet(api_response, key, None)
      n == Len(api_response.v)
  IN CASE action_type = PyStr(github_create_issue) ->
            IF ~isdict THEN FormatRaises
            ELSE IF Truthy(get("html_url"))
            THEN Out(<<"U+2705"," ","S","u","c","c","e","s","s","f","u","l","l","y"," ","c","r","e","a","t","e","d"," ","G","i","t","H","u","b"," ","i","s","s","u","e",":"," ">> \o PyToStr(get("html_url")))
            ELSE Out(<<"U+274C"," ","G","i","t","H","u","b"," ","i","s","s","u","e"," ","c","r","e","a","t","i","o","n"," ","s","e","e","m","s"," ","t","o"," ","h","a","v","e"," ","f","a","i","l","e","d"," ","o","r"," ","r","e","t","u","r","n","e","d"," ","a","n"," ","u","n","e","x","p","e","c","t","e","d"," ","r","e","s","p","o","n","s","e",".">>)
       [] action_type = PyStr(github_list_issues) ->
            IF api_response.k # "list"
            THEN Out(<<"U+274C"," ","C","o","u","l","d"," ","n","o","t"," ","r","e","t","r","i","e","v","e"," ","o","r"," ","p","a","r","s","e"," ","t","h","e"," ","l","i","s","t"," ","o","f"," ","G","i","t","H","u","b"," ","i","s","s","u","e","s",".">>)
            ELSE IF \E j \in 1..Min(n, ListShown) : ~IssueOk(api_response.v[j]) THEN FormatRaises
            ELSE Out(<<"U+1F4CB"," ","F","o","u","n","d"," ">> \o IntToStr(n) \o <<" ","i","s","s","u","e","s"," ","i","n"," ","r","e","p","o"," ","'">> \o Repo(st) \o <<"'",":","\n">>
                     \o Join(IssueLines(api_response.v, 1, Min(n, ListShown)), <<"\n">>)
                     \o (IF n > ListShown
                         THEN <<"\n",".",".","."," ","a","n","d"," ">> \o IntToStr(n - ListShown) \o <<" ","m","o","r","e",".">> ELSE <<>>))
       [] action_type = PyStr(github_get_issue) ->
            IF ~isdict THEN FormatRaises
            ELSE IF Truthy(get("html_url")) /\ Truthy(get("title"))
            THEN Out(<<"U+1F50D"," ","D","e","t","a","i","l","s"," ","f","o","r"," ","i","s","s","u","e"," ","#">> \o PyToStr(get("number")) \o <<" ","i","n"," ","r","e","p","o"," ","'">>
                     \o Repo(st) \o <<"'",":","\n","T","i","t","l","e",":"," ">> \o PyToStr(get("title"))
                     \o <<"\n","U","R","L",":"," ">> \o PyToStr(get("html_url")))
            ELSE Out(<<"U+274C"," ","C","o","u","l","d"," ","n","o","t"," ","r","e","t","r","i","e","v","e"," ","d","e","t","a","i","l","s"," ","f","o","r"," ","t","h","e"," ","G","i","t","H","u","b"," ","i","s","s","u","e",".">>)
       [] action_type = PyStr(github_comment_issue) ->
            IF ~isdict THEN FormatRaises
            ELSE IF Truthy(get("html_url"))
            THEN Out(<<"U+1F4AC"," ","S","u","c","c","e","s","s","f","u","l","l","y"," ","c","o","m","m","e","n","t","e","d"," ","o","n"," ","G","i","t","H","u","b"," ","i","s","s","u","e",":"," ">> \o PyToStr(get("html_url")))
            ELSE Out(<<"U+274C"," ","G","i","t","H","u","b"," ","i","s","s","u","e"," ","c","o","m","m","e","n","t"," ","s","e","e","m","s"," ","t","o"," ","h","a","v","e"," ","f","a","i","l","e","d"," ","o","r"," ","r","e","t","u","r","n","e","d"," ","a","n"," ","u","n","e","x","p","e","c","t","e","d"," ","r","e","s","p","o","n","s","e",".">>)
       [] action_type = PyStr(slack_send_message) ->
            IF ~isdict THEN FormatRaises
            ELSE IF Truthy(get("ok"))
            THEN Out(<<"U+1F4AC"," ","S","u","c","c","e","s","s","f","u","l","l","y"," ","s","e","n","t"," ","S","l","a","c","k"," ","m","e","s","s","a","g","e"," ","t","o"," ","c","h","a","n","n","e","l"," ">> \o PyToStr(get("channel"))
                     \o <<" ","(","T","i","m","e","s","t","a","m","p",":"," ">> \o PyToStr(get("ts")) \o <<")",".">>)
            ELSE Out(<<"U+274C"," ","F","a","i","l","e","d"," ","t","o"," ","s","e","n","d"," ","S","l","a","c","k"," ","m","e","s","s","a","g","e","."," ","E","r","r","o","r",":"," ">>
                     \o PyToStr(DictGet(api_response, "error", PyStr(<<"U","n","k","n","o","w","n"," ","S","l","a","c","k"," ","e","r","r","o","r">>))))
       [] action_type = PyStr(unhandled) ->
            IF ~isdict THEN FormatRaises
            ELSE IF Truthy(get("suggestions"))
            THEN Out(<<"U+1F914"," ">>
                     \o PyToStr(DictGet(api_response, "message",
                                        PyStr(<<"I"," ","c","o","u","l","d","n","'","t"," ","u","n","d","e","r","s","t","a","n","d"," ","y","o","u","r"," ","r","e","q","u","e","s","t",".">>)))
                     \o <<"\n","\n">> \o Join(SuggestionLines(get("suggestions").v, 1), <<"\n">>)
                     \o <<"\n","\n","Y","o","u","r"," ","r","e","q","u","e","s","t"," ","w","a","s",":"," ","'">> \o PyToStr(get("your_request")) \o <<"'">>)
            ELSE Out(<<"U+1F914"," ","I"," ","c","o","u","l","d","n","'","t"," ","u","n","d","e","r","s","t","a","n","d"," ","o","r"," ","h","a","n","d","l","e"," ","y","o","u","r"," ","r","e","q","u","e","s","t","."," ","P","l","e","a","s","e"," ","t","r","y"," ","b","e","i","n","g"," ","m","o","r","e"," ","s","p","e","c","i","f","i","c",".">>)
       [] action_type = PyStr(general_response) ->
            IF ~isdict THEN FormatRaises
            ELSE IF Truthy(get("message")) THEN Out(PyToStr(get("message")))
            ELSE Out(<<"H","e","l","l","o","!"," ","H","o","w"," ","c","a","n"," ","I"," ","h","e","l","p"," ","y","o","u"," ","t","o","d","a","y","?">>)
       [] action_type = PyStr(github_list_branches) ->
            IF api_response.k # "list"
            THEN Out(<<"U+274C"," ","C","o","u","l","d"," ","n","o","t"," ","r","e","t","r","i","e","v","e"," ","o","r"," ","p","a","r","s","e"," ","t","h","e"," ","l","i","s","t"," ","o","f"," ","G","i","t","H","u","b"," ","b","r","a","n","c","h","e","s",".">>)
            ELSE IF \E j \in 1..Min(n, BranchesShown) : ~BranchOk(api_response.v[j]) THEN FormatRaises
            ELSE Out(<<"U+1F33F"," ","F","o","u","n","d"," ">> \o IntToStr(n) \o <<" ","b","r","a","n","c","h","e","s"," ","i","n"," ","r","e","p","o"," ","'">> \o Repo(st) \o <<"'",":","\n">>
                     \o Join(BranchLines(api_response.v, 1, Min(n, BranchesShown)), <<"\n">>)
                     \o (IF n > BranchesShown
                         THEN <<"\n",".",".","."," ","a","n","d"," ">> \o IntToStr(n - BranchesShown) \o <<" ","m","o","r","e",".">> ELSE <<>>))
       [] action_type = PyStr(github_get_branch) ->
            IF ~isdict THEN FormatRaises
            ELSE IF Truthy(get("name"))
            THEN LET commit == DictGet(api_response, "commit", PyDict(<<>>))
                     sha == IF commit.k = "dict" THEN DictGet(commit, "sha", PyStr(<<"U","n","k","n","o","w","n">>)) ELSE None
                 IN IF sha.k # "str" THEN FormatRaises
                    ELSE Out(<<"U+1F33F"," ","D","e","t","a","i","l","s"," ","f","o","r"," ","b","r","a","n","c","h"," ","'">> \o PyToStr(get("name")) \o <<"'"," ","i","n"," ","r","e","p","o"," ","'">>
                             \o Repo(st) \o <<"'",":","\n","L","a","t","e","s","t"," ","c","o","m","m","i","t",":"," ">> \o Prefix(sha.v, ShaShown)
                             \o <<"\n","P","r","o","t","e","c","t","e","d",":"," ">>
                             \o PyToStr(DictGet(api_response, "protected", PyBool(FALSE))))
            ELSE Out(<<"U+274C"," ","C","o","u","l","d"," ","n","o","t"," ","r","e","t","r","i","e","v","e"," ","d","e","t","a","i","l","s"," ","f","o","r"," ","t","h","e"," ","G","i","t","H","u","b"," ","b","r","a","n","c","h",".">>)
       [] action_type = PyStr(github_create_branch) ->
            IF ~isdict THEN FormatRaises
            ELSE IF Truthy(get("ref"))
            THEN IF get("ref").k # "str" THEN FormatRaises
                 ELSE Out(<<"U+2705"," ","S","u","c","c","e","s","s","f","u","l","l","y"," ","c","r","e","a","t","e","d"," ","b","r","a","n","c","h"," ","'">> \o Remove(get("ref").v, <<"r","e","f","s","/","h","e","a","d","s","/">>)
                          \o <<"'"," ","i","n"," ","r","e","p","o"," ","'">> \o Repo(st) \o <<"'"," ","f","r","o","m"," ","'">>
                          \o PyToStr(Get(st, "source_branch", PyStr(<<"m","a","i","n">>))) \o <<"'">>)
            ELSE Out(<<"U+274C"," ","G","i","t","H","u","b"," ","b","r","a","n","c","h"," ","c","r","e","a","t","i","o","n"," ","s","e","e","m","s"," ","t","o"," ","h","a","v","e"," ","f","a","i","l","e","d"," ","o","r"," ","r","e","t","u","r","n","e","d"," ","a","n"," ","u","n","e","x","p","e","c","t","e","d"," ","r","e","s","p","o","n","s","e",".">>)
       [] OTHER ->
            Out(<<"A","c","t","i","o","n"," ","'">> \o PyToStr(action_type) \o <<"'"," ","c","o","m","p","l","e","t","e","d","."," ","R","a","w"," ","r","e","s","p","o","n","s","e",":"," ">>
                \o JsonDumps(api_response, 0))

\* a formatter that looks at the error entry of api_response before it looks
\* at error_message
format_response_api_first(final_state) ==
  LET action_type == Get(final_state, "action_type", None)
      api_response == Get(final_state, "api_response", None)
      error_message == Get(final_state, "error_message", None)
  IN IF api_response.k = "dict" /\ Truthy(DictGet(api_response, "error", None))
     THEN Out(<<"A","P","I"," ","E","r","r","o","r"," ","(">> \o PyToStr(action_type) \o <<")",":"," ">>
              \o PyToStr(DictGet(api_response, "error", None)) \o <<"."," ","D","e","t","a","i","l","s",":"," ">>
              \o PyToStr(DictGet(api_response, "details", PyStr(<<"N","/","A">>))))
     ELSE IF Truthy(error_message)
     THEN Out(<<"E","r","r","o","r"," ","p","r","o","c","e","s","s","i","n","g"," ","y","o","u","r"," ","r","e","q","u","e","s","t",":"," ">> \o PyToStr(error_message))
     ELSE IF ~Truthy(api_response) THEN Out(<<"N","o"," ","A","P","I"," ","r","e","s","p","o","n","s","e"," ","w","a","s"," ","r","e","c","e","i","v","e","d",".">>)
     ELSE FormatByIntent(final_state, action_type, api_response)

\* _format_response
format_response(final_state) ==
  LET action_type == Get(final_state, "action_type", None)
      api_response == Get(final_state, "api_response", None)
      error_message == Get(final_state, "error_message", None)
  IN IF Truthy(error_message)
     THEN Out(<<"E","r","r","o","r"," ","p","r","o","c","e","s","s","i","n","g"," ","y","o","u","r"," ","r","e","q","u","e","s","t",":"," ">> \o PyToStr(error_message))
     ELSE IF ~Truthy(api_response) THEN Out(<<"N","o"," ","A","P","I"," ","r","e","s","p","o","n","s","e"," ","w","a","s"," ","r","e","c","e","i","v","e","d",".">>)
     ELSE IF api_response.k = "dict" /\ Truthy(DictGet(api_response, "error", None))
     THEN Out(<<"A","P","I"," ","E","r","r","o","r"," ","(">> \o PyToStr(action_type) \o <<")",":"," ">>
              \o PyToStr(DictGet(api_response, "error", None)) \o <<"."," ","D","e","t","a","i","l","s",":"," ">>
              \o PyToStr(DictGet(api_response, "details", PyStr(<<"N","/","A">>))))
     ELSE FormatByIntent(final_state, action_type, api_response)

(***************************************************************************)
(* The environment: the queries put to the processor, the replies of the   *)
(* language model, the responses of GitHub and of Slack.                   *)
(***************************************************************************)
Queries ==
  { <<"L","i","s","t"," ","i","s","s","u","e","s"," ","f","o","r"," ","r","e","p","o","s","i","t","o","r","y"," ","m","y","-","t","e","s","t","-","a","p","p">>,
    <<"l","i","s","t"," ","i","s","s","u","e","s"," ","i","n"," ","r","e","p","o"," ","x">>,
    <<"s","h","o","w"," ","i","s","s","u","e"," ","#","4","2">>,
    <<"C","r","e","a","t","e"," ","b","r","a","n","c","h"," ","h","o","t","f","i","x","-","1"," ","f","r","o","m"," ","m","a","i","n"," ","i","n"," ","r","e","p","o"," ","s","v","c">>,
    <<"r","a","i","s","e"," ","a","n"," ","i","s","s","u","e"," ","i","n"," ","r","e","p","o"," ","b","i","l","l","i","n","g">>,
    <<"c","r","e","a","t","e"," ","i","s","s","u","e"," ","i","n"," ","b","a","c","k","e","n","d",":"," ","A","P","I"," ","i","s"," ","r","e","t","u","r","n","i","n","g"," ","5","0","0"," ","e","r","r","o","r","s">>,
    <<"c","o","m","m","e","n","t"," ","o","n"," ","i","s","s","u","e"," ","#","1"," ","i","n"," ","r","e","p","o"," ","a","p","i">>,
    <<"g","e","t"," ","d","e","t","a","i","l","s"," ","o","f"," ","#","7"," ","i","n"," ","r","e","p","o"," ","a","p","i">>,
    <<"l","i","s","t"," ","b","r","a","n","c","h","e","s"," ","i","n"," ","r","e","p","o"," ","s","v","c">>,
    <<"s","e","n","d"," ","a"," ","m","e","s","s","a","g","e"," ","'","r","e","l","e","a","s","e"," ","d","o","n","e","'"," ","t","o"," ","@","a","l","i","c","e">>,
    <<" ","t","o"," ","a","l","i","c","e"," ","s","e","n","d">>,
    <<"s","e","n","d"," ","m","e","s","s","a","g","e">>,
    <<"s","l","a","c","k"," ","i","n"," ","#","g","e","n","e","r","a","l">>,
    <<"h","e","l","l","o">> }

ReplyTexts ==
  { <<"A","C","T","I","O","N",":"," ","u","n","h","a","n","d","l","e","d">>,
    <<"I"," ","c","a","n","n","o","t"," ","h","e","l","p"," ","w","i","t","h"," ","t","h","a","t",".">>,
    <<"A","C","T","I","O","N",":"," ","[","g","i","t","h","u","b","_","c","r","e","a","t","e","_","i","s","s","u","e","]","\n","R","E","P","O",":"," ","x">>,
    <<"A","C","T","I","O","N",":"," ","d","e","p","l","o","y">>,
    <<"A","C","T","I","O","N",":"," ","g","i","t","h","u","b","_","c","r","e","a","t","e","_","i","s","s","u","e","\n","R","E","P","O",":"," ","b","i","l","l","i","n","g","\n","I","S","S","U","E","_","T","I","T","L","E",":"," ","L","o","g","i","n"," ","b","u","g","\n","I","S","S","U","E","_","B","O","D","Y",":"," ","n","u","l","l">>,
    <<"A","C","T","I","O","N",":"," ","g","i","t","h","u","b","_","c","r","e","a","t","e","_","i","s","s","u","e","\n","R","E","P","O",":"," ","n","u","l","l","\n","I","S","S","U","E","_","T","I","T","L","E",":"," ","L","o","g","i","n"," ","b","u","g">>,
    <<"A","C","T","I","O","N",":"," ","g","i","t","h","u","b","_","l","i","s","t","_","i","s","s","u","e","s","\n","R","E","P","O",":"," ","m","y","-","t","e","s","t","-","a","p","p","\n","I","S","S","U","E","_","N","U","M","B","E","R",":"," ","n","u","l","l">>,
    <<"A","C","T","I","O","N",":"," ","g","i","t","h","u","b","_","l","i","s","t","_","i","s","s","u","e","s","\n","R","E","P","O",":"," ","n","u","l","l">>,
    <<"A","C","T","I","O","N",":"," ","g","i","t","h","u","b","_","g","e","t","_","i","s","s","u","e","\n","R","E","P","O",":"," ","a","p","i","\n","I","S","S","U","E","_","N","U","M","B","E","R",":"," ","4","2">>,
    <<"A","C","T","I","O","N",":"," ","g","i","t","h","u","b","_","g","e","t","_","i","s","s","u","e","\n","R","E","P","O",":"," ","a","p","i","\n","I","S","S","U","E","_","N","U","M","B","E","R",":"," ","n","u","l","l">>,
    <<"A","C","T","I","O","N",":"," ","g","i","t","h","u","b","_","g","e","t","_","i","s","s","u","e","\n","R","E","P","O",":"," ","n","u","l","l","\n","I","S","S","U","E","_","N","U","M","B","E","R",":"," ","4","2">>,
    <<"A","C","T","I","O","N",":"," ","g","i","t","h","u","b","_","c","o","m","m","e","n","t","_","i","s","s","u","e","\n","R","E","P","O",":"," ","a","p","i","\n","I","S","S","U","E","_","N","U","M","B","E","R",":"," ","1","\n","C","O","M","M","E","N","T",":"," ","L","G","T","M">>,
    <<"A","C","T","I","O","N",":"," ","g","i","t","h","u","b","_","c","o","m","m","e","n","t","_","i","s","s","u","e","\n","R","E","P","O",":"," ","a","p","i","\n","I","S","S","U","E","_","N","U","M","B","E","R",":"," ","1","\n","C","O","M","M","E","N","T",":"," ","n","u","l","l">>,
    <<"A","C","T","I","O","N",":"," ","g","i","t","h","u","b","_","c","o","m","m","e","n","t","_","i","s","s","u","e","\n","R","E","P","O",":"," ","a","p","i","\n","I","S","S","U","E","_","N","U","M","B","E","R",":"," ","x","1","\n","C","O","M","M","E","N","T",":"," ","L","G","T","M">>,
    <<"A","C","T","I","O","N",":"," ","g","i","t","h","u","b","_","c","o","m","m","e","n","t","_","i","s","s","u","e","\n","R","E","P","O",":"," ","n","u","l","l","\n","I","S","S","U","E","_","N","U","M","B","E","R",":"," ","1","\n","C","O","M","M","E","N","T",":"," ","L","G","T","M">>,
    <<"A","C","T","I","O","N",":"," ","g","i","t","h","u","b","_","l","i","s","t","_","b","r","a","n","c","h","e","s","\n","R","E","P","O",":"," ","s","v","c">>,
    <<"A","C","T","I","O","N",":"," ","g","i","t","h","u","b","_","l","i","s","t","_","b","r","a","n","c","h","e","s","\n","R","E","P","O",":"," ","n","u","l","l">>,
    <<"A","C","T","I","O","N",":"," ","g","i","t","h","u","b","_","g","e","t","_","b","r","a","n","c","h","\n","R","E","P","O",":"," ","s","v","c","\n","B","R","A","N","C","H","_","N","A","M","E",":"," ","m","a","i","n">>,
    <<"A","C","T","I","O","N",":"," ","g","i","t","h","u","b","_","g","e","t","_","b","r","a","n","c","h","\n","R","E","P","O",":"," ","s","v","c","\n","B","R","A","N","C","H","_","N","A","M","E",":"," ","n","u","l","l">>,
    <<"A","C","T","I","O","N",":"," ","g","i","t","h","u","b","_","g","e","t","_","b","r","a","n","c","h","\n","R","E","P","O",":"," ","n","u","l","l","\n","B","R","A","N","C","H","_","N","A","M","E",":"," ","m","a","i","n">>,
    <<"A","C","T","I","O","N",":"," ","g","i","t","h","u","b","_","c","r","e","a","t","e","_","b","r","a","n","c","h","\n","R","E","P","O",":"," ","s","v","c","\n","B","R","A","N","C","H","_","N","A","M","E",":"," ","h","o","t","f","i","x","-","1","\n","S","O","U","R","C","E","_","B","R","A","N","C","H",":"," ","m","a","i","n">>,
    <<"A","C","T","I","O","N",":"," ","g","i","t","h","u","b","_","c","r","e","a","t","e","_","b","r","a","n","c","h","\n","R","E","P","O",":"," ","s","v","c","\n","B","R","A","N","C","H","_","N","A","M","E",":"," ","h","o","t","f","i","x","-","1","\n","S","O","U","R","C","E","_","B","R","A","N","C","H",":"," ","g","o","n","e">>,
    <<"A","C","T","I","O","N",":"," ","g","i","t","h","u","b","_","c","r","e","a","t","e","_","b","r","a","n","c","h","\n","R","E","P","O",":"," ","s","v","c","\n","B","R","A","N","C","H","_","N","A","M","E",":"," ","n","u","l","l","\n","S","O","U","R","C","E","_","B","R","A","N","C","H",":"," ","m","a","i","n">>,
    <<"A","C","T","I","O","N",":"," ","g","i","t","h","u","b","_","c","r","e","a","t","e","_","b","r","a","n","c","h","\n","R","E","P","O",":"," ","n","u","l","l","\n","B","R","A","N","C","H","_","N","A","M","E",":"," ","h","o","t","f","i","x","-","1">>,
    <<"A","C","T","I","O","N",":"," ","s","l","a","c","k","_","s","e","n","d","_","m","e","s","s","a","g","e","\n","M","E","S","S","A","G","E",":"," ","r","e","l","e","a","s","e"," ","d","o","n","e">>,
    <<"A","C","T","I","O","N",":"," ","g","e","n","e","r","a","l","_","r","e","s","p","o","n","s","e">>,
    <<"A","C","T","I","O","N",":"," ","n","e","e","d","s","_","c","l","a","r","i","f","i","c","a","t","i","o","n","\n","R","E","P","O",":"," ","b","i","l","l","i","n","g">> }

ModelOutcomes == {ModelRaises} \cup {ModelReplies(t) : t \in ReplyTexts}
ChatOutcomes == {ModelRaises, ModelReplies(<<" ","H","i","!"," ","H","o","w"," ","c","a","n"," ","I"," ","h","e","l","p","?"," ">>)}

\* the statuses a service answers with, and the raw text of a failure
OkStatuses == {200, 201, 202}
FailStatuses == {404, 500}
NotFound == <<"{","\"","m","e","s","s","a","g","e","\"",":"," ","\"","N","o","t"," ","F","o","u","n","d","\"","}">>
FailJson == PyDict([message |-> PyStr(<<"N","o","t"," ","F","o","u","n","d">>)])

\* the issues of a repository
MaxIssues == 4
IssueTitles == <<<<"B","u","g"," ","A">>, <<"B","u","g"," ","B">>, <<"B","u","g"," ","C">>, <<"B","u","g"," ","D">>, <<"B","u","g"," ","E">>, <<"B","u","g"," ","F">>>>
Issue(i) ==
  PyDict([number |-> PyInt(i), title |-> PyStr(IssueTitles[((i - 1) % Len(IssueTitles)) + 1]),
          html_url |-> PyStr(<<"h","t","t","p","s",":","/","/","g","i","t","h","u","b",".","c","o","m","/","o","/","r","/","i","s","s","u","e","s","/">> \o IntToStr(i))])
Branch(name, protected) ==
  PyDict([name |-> PyStr(name), commit |-> PyDict([sha |-> PyStr(<<"0","1","2","3","4","5","6","7","8","9","a","b","c","d","e","f">>)]),
          protected |-> PyBool(protected)])

\* the bodies a request to a GitHub endpoint is answered with on success
GithubBodies(endpoint) ==
  CASE endpoint = "issues" -> {PyList([i \in 1..n |-> Issue(i)]) : n \in 0..MaxIssues}
    [] endpoint = "issues/{n}" -> {Issue(1), PyDict([number |-> PyInt(1)])}
    [] endpoint = "issues POST" -> {Issue(1), PyList(<<Issue(1)>>)}
    [] endpoint = "issues/{n}/comments" ->
         {PyDict([html_url |-> PyStr(<<"h","t","t","p","s",":","/","/","g","i","t","h","u","b",".","c","o","m","/","o","/","r","/","i","s","s","u","e","s","/","1","#","c","1">>)])}
    [] endpoint = "branches" ->
         {PyList(<<>>), PyList(<<Branch(<<"m","a","i","n">>, TRUE), Branch(<<"d","e","v">>, FALSE)>>)}
    [] endpoint = "branches/{name}" -> {Branch(<<"m","a","i","n">>, TRUE)}

GithubResponses(endpoint) ==
  {HttpTimeout, HttpConnectionError}
  \cup {Http(s, NotFound, FailJson) : s \in FailStatuses}
  \cup {Http(s, <<"<","h","t","m","l",">">>, Undecodable) : s \in OkStatuses}
  \cup {Http(s, <<"(","j","s","o","n",")">>, b) : s \in OkStatuses, b \in GithubBodies(endpoint)}

\* the branches of the remote repository: the number of the commit each
\* points at, the SHA of commit n being Sha(n)
MaxCommits == 2
Sha(n) == PyStr(<<"c">> \o NatToStr(n))
RefJson(name, n) ==
  PyDict([ref |-> PyStr(<<"r","e","f","s","/","h","e","a","d","s","/">> \o name), object |-> PyDict([sha |-> Sha(n)])])

\* the answers to GET git/refs/heads/{name} when the remote's branches are rem
LookupResponses(rem, name) ==
  {HttpTimeout, HttpConnectionError}
  \cup {Http(s, NotFound, FailJson) : s \in {500}}
  \cup (IF name \in DOMAIN rem
        THEN {Http(s, <<"(","j","s","o","n",")">>, RefJson(name, rem[name])) : s \in OkStatuses}
             \cup {Http(200, <<"<","h","t","m","l",">">>, Undecodable), Http(200, <<"(","j","s","o","n",")">>, PyList(<<>>))}
        ELSE {Http(404, NotFound, FailJson)})

\* the workspace of Slack
Member(id, name, real_name) ==
  PyDict([id |-> PyStr(id), name |-> PyStr(name), real_name |-> PyStr(real_name),
          profile |-> PyDict([display_name |-> PyStr(name)])])
Channel(id, name) == PyDict([id |-> PyStr(id), name |-> PyStr(name)])
SlackOk(f) == PyDict([ok |-> PyBool(TRUE)] @@ f)
SlackError(error) == PyDict([ok |-> PyBool(FALSE), error |-> PyStr(error)])
SlackBodies(endpoint) ==
  CASE endpoint = "users.list" ->
         {SlackOk([members |-> PyList(<<Member(<<"U","1">>, <<"b","o","b">>, <<"B","o","b"," ","B">>),
                                         Member(<<"U","2">>, <<"a","l","i","c","e">>, <<"A","l","i","c","e"," ","A">>)>>)]),
          SlackOk([members |-> PyList(<<>>)]),
          SlackError(<<"i","n","v","a","l","i","d","_","a","u","t","h">>)}
    [] endpoint = "conversations.open" ->
         {SlackOk([channel |-> PyDict([id |-> PyStr(<<"D","1">>)])]), SlackOk(<<>>),
          SlackError(<<"u","s","e","r","_","d","i","s","a","b","l","e","d">>)}
    [] endpoint = "conversations.list" ->
         {SlackOk([channels |-> PyList(<<Channel(<<"C","1">>, <<"r","a","n","d","o","m">>), Channel(<<"C","2">>, <<"g","e","n","e","r","a","l">>)>>)]),
          SlackOk([channels |-> PyList(<<>>)]),
          SlackError(<<"i","n","v","a","l","i","d","_","a","u","t","h">>)}
    [] endpoint = "conversations.list private" ->
         {SlackOk([channels |-> PyList(<<Channel(<<"G","1">>, <<"g","e","n","e","r","a","l">>)>>)]),
          SlackOk([channels |-> PyList(<<>>)]),
          SlackError(<<"m","i","s","s","i","n","g","_","s","c","o","p","e">>)}
    [] endpoint = "chat.postMessage" ->
         {SlackOk([channel |-> PyStr(<<"D","1">>), ts |-> PyStr(<<"1","7","0","0","0","0","0","0","0","0",".","0","0","0","1","0","0">>)]),
          SlackError(<<"n","o","t","_","i","n","_","c","h","a","n","n","e","l">>), SlackError(<<"c","h","a","n","n","e","l","_","n","o","t","_","f","o","u","n","d">>),
          SlackError(<<"i","n","v","a","l","i","d","_","a","u","t","h">>), SlackError(<<"m","s","g","_","t","o","o","_","l","o","n","g">>)}
SlackResponses(endpoint) ==
  {HttpTimeout, HttpConnectionError, Http(500, <<"e","r","r","o","r">>, Undecodable),
   Http(200, <<"<","h","t","m","l",">">>, Undecodable), Http(200, <<"[","]">>, PyList(<<>>))}
  \cup {Http(200, <<"(","j","s","o","n",")">>, b) : b \in SlackBodies(endpoint)}

(***************************************************************************)
(* One processor, the graph compiled by __init__, and the runs of          *)
(* process_query one after the other.                                      *)
(***************************************************************************)
VARIABLES
  pc,       \* where the run is: "idle", a node, a step of a helper, "END", "done", "raised"
  state,    \* the WorkflowState of the run
  reply,    \* the outcome of the classifier's model call
  visited,  \* the nodes the run has entered, then "END"
  calls,    \* the requests the run has issued, each with what answered it
  local,    \* the locals of the helper that is between two requests
  remote,   \* the branches of the GitHub repository
  exc,      \* the exception that left process_query, or the constructor
  output,   \* the text process_query returned
  self,     \* the processor: its credentials, its model client and its graph
  other,    \* the invocation of process_query that is not running now
  integrations_db  \* the integrations of every user, in the order they were connected

vars == <<pc, state, reply, visited, calls, local, remote, exc, output, self, other,
          integrations_db>>

Idle == <<>>
NoException == "none"


\* a processor that looks for the model API key after it has built the model
\* client and the graph
init_without_key_check(gemini_api_key, github_token, slack_token, github_owner) ==
  [raised |-> FALSE,
   self |-> [github_token |-> github_token, slack_token |-> slack_token,
             github_owner |-> github_owner,
             model |-> [name |-> <<"g","e","m","i","n","i","-","1",".","5","-","f","l","a","s","h">>, api_key |-> gemini_api_key],
             app |-> "compiled graph"]]

\* WorkflowProcessor.__init__: ValueError leaves it, or the processor is built
init(gemini_api_key, github_token, slack_token, github_owner) ==
  IF ~Truthy(gemini_api_key) THEN [raised |-> TRUE, self |-> None]
  ELSE [raised |-> FALSE,
        self |-> [github_token |-> github_token, slack_token |-> slack_token,
                  github_owner |-> github_owner,
                  model |-> [name |-> <<"g","e","m","i","n","i","-","1",".","5","-","f","l","a","s","h">>, api_key |-> gemini_api_key],
                  app |-> "compiled graph"]]

\* an invocation of process_query that has not begun
NoRun ==
  [pc |-> "idle", state |-> initial_state(Idle), reply |-> ModelRaises, visited |-> <<>>,
   calls |-> <<>>, local |-> None, exc |-> NoException, output |-> None]

\* the state before the constructor is called
NoProcessor ==
  /\ pc = "idle"
  /\ state = initial_state(Idle)
  /\ reply = ModelRaises
  /\ visited = <<>>
  /\ calls = <<>>
  /\ local = None
  /\ remote = (<<"m","a","i","n">> :> 1)
  /\ exc = NoException
  /\ output = None
  /\ self = None
  /\ other = NoRun
  /\ integrations_db = <<>>

\* the state after WorkflowProcessor(key, token, token, owner)
Init ==
  /\ pc = "idle"
  /\ state = initial_state(Idle)
  /\ reply = ModelRaises
  /\ visited = <<>>
  /\ calls = <<>>
  /\ local = None
  /\ remote = (<<"m","a","i","n">> :> 1)
  /\ exc = NoException
  /\ output = None
  /\ self = init(PyStr(<<"k","e","y">>), PyStr(<<"g","h","p">>), PyStr(<<"x","o","x","b">>), PyStr(<<"o","w","n","e","r">>)).self
  /\ other = NoRun
  /\ integrations_db = <<>>

\* the requests of a step and the answer they got
Answered(requests, resp) == [i \in DOMAIN requests |-> [req |-> requests[i], resp |-> resp]]

\* process_query: initial_state and the entry into the graph
ProcessQueryOf(queries) ==
  /\ self # None
  /\ pc \in {"idle", "done", "raised"}
  /\ \E user_query \in queries : state' = initial_state(user_query)
  /\ pc' = "classify_and_extract"
  /\ reply' = ModelRaises
  /\ visited' = <<>>
  /\ calls' = <<>>
  /\ local' = None
  /\ exc' = NoException
  /\ output' = None
  /\ UNCHANGED <<remote, self, other, integrations_db>>

ProcessQuery == ProcessQueryOf(Queries)

\* the classifier node; outcomes is what the model call may do
ClassifyAndExtractOf(outcomes) ==
  /\ pc = "classify_and_extract"
  /\ \E r \in outcomes :
       /\ reply' = r
       /\ state' = Merge(state, classify_and_extract_parameters_node(state, r))
  /\ visited' = Append(visited, pc)
  /\ calls' = calls \o Answered(<<Request("generate_content", "gemini", None, None, None)>>, reply')
  /\ pc' = "dispatch"
  /\ UNCHANGED <<local, remote, exc, output, self, other, integrations_db>>

ClassifyAndExtract == ClassifyAndExtractOf(ModelOutcomes)

\* the conditional edge out of classify_and_extract
Dispatch ==
  /\ pc = "dispatch"
  /\ IF Route(state) = "KeyError"
     THEN pc' = "raised" /\ exc' = "KeyError"
     ELSE pc' = Route(state) /\ exc' = exc
  /\ UNCHANGED <<state, reply, visited, calls, local, remote, output, self, other, integrations_db>>

\* the exception a request leaves the helper with
Exception(resp) ==
  CASE resp.kind = "timeout" -> "Timeout"
    [] resp.kind = "connection" -> "ConnectionError"
    [] resp.json = Undecodable -> "JSONDecodeError"
    [] OTHER -> "KeyError"

\* a node that runs to its return or to the exception that leaves it, and the
\* edge from the node to END
RunNode(r, resp) ==
  /\ calls' = calls \o Answered(r.calls, resp)
  /\ IF r.raised
     THEN /\ pc' = "raised"
          /\ exc' = Exception(resp)
          /\ visited' = Append(visited, pc)
          /\ state' = state
     ELSE /\ pc' = "END"
          /\ exc' = exc
          /\ visited' = visited \o <<pc, "END">>
          /\ state' = Merge(state, r.delta)
  /\ UNCHANGED <<reply, local, remote, output, self, other, integrations_db>>

CreateIssueNode ==
  /\ pc = "github_create_issue_node"
  /\ \E resp \in GithubResponses("issues POST") : RunNode(create_issue_node(state, resp), resp)

ListIssuesNode ==
  /\ pc = "github_list_issues_node"
  /\ \E resp \in GithubResponses("issues") : RunNode(list_issues_node(state, resp), resp)

GetIssueNode ==
  /\ pc = "github_get_issue_node"
  /\ \E resp \in GithubResponses("issues/{n}") : RunNode(get_issue_node(state, resp), resp)

CommentIssueNode ==
  /\ pc = "github_comment_issue_node"
  /\ \E resp \in GithubResponses("issues/{n}/comments") :
       RunNode(comment_issue_node(state, resp), resp)

ListBranchesNode ==
  /\ pc = "github_list_branches_node"
  /\ \E resp \in GithubResponses("branches") : RunNode(list_branches_node(state, resp), resp)

GetBranchNode ==
  /\ pc = "github_get_branch_node"
  /\ \E resp \in GithubResponses("branches/{name}") : RunNode(get_branch_node(state, resp), resp)

\* _create_branch_node up to the source SHA: the lookup of the source branch
CreateBranchNode ==
  /\ pc = "github_create_branch_node"
  /\ \E resp \in LookupResponses(remote, PyToStr(Get(state, "source_branch", PyStr(<<"m","a","i","n">>)))) :
       LET r == create_branch_node(state, resp)
       IN IF r.go
          THEN /\ pc' = "git/refs"
               /\ local' = r.sha
               /\ visited' = Append(visited, pc)
               /\ calls' = calls \o Answered(r.calls, resp)
               /\ UNCHANGED <<state, reply, remote, exc, output, self, other, integrations_db>>
          ELSE RunNode(r, resp)

\* the commit a SHA names
CommitOf(sha) == CHOOSE n \in 1..MaxCommits : Sha(n) = sha

\* a remote that would create the branch at the head of main as it is when
\* the POST arrives, whatever SHA the request carries
CreateRefOutcomesAtHead(rem, name, sha) ==
  IF name \in DOMAIN rem
  THEN {[resp |-> HttpTimeout, remote |-> rem]}
  ELSE {[resp |-> Http(201, <<"(","j","s","o","n",")">>, RefJson(name, rem[<<"m","a","i","n">>])),
         remote |-> rem @@ (name :> rem[<<"m","a","i","n">>])]}

\* the answers to POST git/refs and the remote's branches after the request
CreateRefOutcomes(rem, name, sha) ==
  {[resp |-> r, remote |-> rem] :
     r \in {HttpTimeout, HttpConnectionError, Http(500, NotFound, FailJson)}}
  \cup (IF name \in DOMAIN rem
        THEN {[resp |-> Http(422, <<"{","\"","m","e","s","s","a","g","e","\"",":"," ","\"","R","e","f","e","r","e","n","c","e"," ","a","l","r","e","a","d","y"," ","e","x","i","s","t","s","\"","}">>, FailJson),
               remote |-> rem]}
        ELSE {[resp |-> r, remote |-> rem @@ (name :> CommitOf(sha))] :
                r \in {HttpTimeout, Http(201, <<"<","h","t","m","l",">">>, Undecodable)}
                      \cup {Http(s, <<"(","j","s","o","n",")">>, RefJson(name, CommitOf(sha))) : s \in OkStatuses}})

\* the rest of _create_branch_node: the create-ref request
CreateBranchRef ==
  /\ pc = "git/refs"
  /\ \E o \in CreateRefOutcomes(remote, PyToStr(Get(state, "branch_name", None)), local) :
       LET r == create_branch_node_ref(state, local, o.resp)
       IN /\ remote' = o.remote
          /\ calls' = calls \o Answered(r.calls, o.resp)
          /\ local' = None
          /\ IF r.raised
             THEN pc' = "raised" /\ exc' = Exception(o.resp) /\ visited' = visited /\ state' = state
             ELSE /\ pc' = "END" /\ exc' = exc /\ visited' = Append(visited, "END")
                  /\ state' = Merge(state, r.delta)
          /\ UNCHANGED <<reply, output, self, other, integrations_db>>

\* someone else pushes a commit to a branch while the node runs
AdvanceHead ==
  /\ pc \in {"github_create_branch_node", "git/refs"}
  /\ \E b \in DOMAIN remote :
       /\ remote[b] < MaxCommits
       /\ remote' = [remote EXCEPT ![b] = @ + 1]
  /\ UNCHANGED <<pc, state, reply, visited, calls, local, exc, output, self, other, integrations_db>>

\* a step of _call_send_slack_message: its result r is the helper's return,
\* which the node stores, or the helper's next request
SlackStep(r, resp) ==
  /\ calls' = calls \o Answered(r.calls, resp)
  /\ IF r.next = "return"
     THEN /\ pc' = "END"
          /\ local' = None
          /\ state' = Merge(state, [api_response |-> r.ret])
          /\ visited' = IF pc = "slack_message_node" THEN visited \o <<pc, "END">>
                        ELSE Append(visited, "END")
     ELSE /\ pc' = r.next
          /\ local' = r.local
          /\ state' = state
          /\ visited' = IF pc = "slack_message_node" THEN Append(visited, pc) ELSE visited
  /\ UNCHANGED <<reply, remote, exc, output, self, other, integrations_db>>

SlackMessageNode ==
  /\ pc = "slack_message_node"
  /\ SlackStep(slack_message_node(state), None)

SlackUsersList ==
  /\ pc = "users.list"
  /\ \E resp \in SlackResponses(pc) : SlackStep(slack_users_list(local, resp), resp)

SlackConversationsOpen ==
  /\ pc = "conversations.open"
  /\ \E resp \in SlackResponses(pc) : SlackStep(slack_conversations_open(local, resp), resp)

SlackConversationsList ==
  /\ pc = "conversations.list"
  /\ \E resp \in SlackResponses(pc) : SlackStep(slack_conversations_list(local, resp), resp)

SlackPrivateChannelsList ==
  /\ pc = "conversations.list private"
  /\ \E resp \in SlackResponses(pc) : SlackStep(slack_private_channels_list(local, resp), resp)

SlackPostMessage ==
  /\ pc = "chat.postMessage"
  /\ \E resp \in SlackResponses(pc) : SlackStep(slack_post_message(local, resp), resp)

GeneralResponseNode ==
  /\ pc = "general_response_node"
  /\ \E r \in ChatOutcomes : RunNode(general_response_node(state, r), r)

\* the nodes that call nothing: _needs_clarification_node and
\* _unhandled_action_node
LocalNode ==
  /\ pc \in {"needs_clarification_node", "unhandled_action_node"}
  /\ RunNode(IF pc = "needs_clarification_node" THEN needs_clarification_node(state)
             ELSE unhandled_action_node(state), None)

\* a call of the formatter that takes error_message out of the state
format_call_consuming(final_state) ==
  [result |-> format_response(final_state),
   final_state |-> [final_state EXCEPT !.error_message = None]]

\* a call of _format_response: what it returns, and final_state after the
\* call (the method reads final_state and assigns to none of its keys)
format_call(final_state) ==
  [result |-> format_response(final_state), final_state |-> final_state]

\* the call c of the formatter returns to the caller of process_query, which
\* is then at pc returned
Formatting(c, returned) ==
  /\ state' = c.final_state
  /\ IF c.result.raised
     THEN pc' = "raised" /\ exc' = "AttributeError" /\ output' = output
     ELSE pc' = returned /\ exc' = exc /\ output' = c.result.out

\* return self._format_response(final_state)
FormatResponse ==
  /\ pc = "END"
  /\ Formatting(format_call(state), "done")
  /\ UNCHANGED <<reply, visited, calls, local, remote, self, other, integrations_db>>

Next ==
  \/ ProcessQuery
  \/ ClassifyAndExtract
  \/ Dispatch
  \/ CreateIssueNode
  \/ ListIssuesNode
  \/ GetIssueNode
  \/ CommentIssueNode
  \/ ListBranchesNode
  \/ GetBranchNode
  \/ CreateBranchNode
  \/ CreateBranchRef
  \/ AdvanceHead
  \/ SlackMessageNode
  \/ SlackUsersList
  \/ SlackConversationsOpen
  \/ SlackConversationsList
  \/ SlackPrivateChannelsList
  \/ SlackPostMessage
  \/ GeneralResponseNode
  \/ LocalNode
  \/ FormatResponse

Spec == Init /\ [][Next]_vars

(***************************************************************************)
(* The formatter called a second time on the final state of a run          *)
(***************************************************************************)
FormatAgain ==
  /\ pc = "done"
  /\ Formatting(format_call(state), "formatted twice")
  /\ UNCHANGED <<reply, visited, calls, local, remote, self, other, integrations_db>>

NextFormat ==
  \/ Next
  \/ FormatAgain

SpecFormat == Init /\ [][NextFormat]_vars

(***************************************************************************)
(* The fallback classification on queries put together from keywords:      *)
(* the model call raises, so that the classifier node takes the fallback   *)
(***************************************************************************)
FallbackWords ==
  << <<"h","e","y">>, <<"e","x","p","l","a","i","n">>, <<"m","a","k","e">>, <<"b","u","g">>, <<"v","i","e","w">>, <<"#","7">>, <<"g","e","t">>, <<"r","e","p","l","y">>,
     <<"n","o","t","i","f","y">>, <<"b","r","a","n","c","h">>, <<"h","o","t","f","i","x">> >>

\* the words of ws whose place is in chosen, in the order of ws
RECURSIVE Chosen(_, _, _)
Chosen(ws, chosen, i) ==
  IF i > Len(ws) THEN <<>>
  ELSE (IF i \in chosen THEN <<ws[i]>> ELSE <<>>) \o Chosen(ws, chosen, i + 1)

FallbackQueries ==
  {Join(Chosen(FallbackWords, chosen, 1), <<" ">>) : chosen \in SUBSET DOMAIN FallbackWords}
  \cup { <<"C","r","e","a","t","e"," ","b","r","a","n","c","h"," ","h","o","t","f","i","x","-","1"," ","f","r","o","m"," ","m","a","i","n"," ","i","n"," ","r","e","p","o"," ","s","v","c">> }

NextFallback ==
  \/ ProcessQueryOf(FallbackQueries)
  \/ ClassifyAndExtractOf({ModelRaises})

SpecFallback == Init /\ [][NextFallback]_vars

(***************************************************************************)
(* The parser on replies of one or two lines, each a key and a value       *)
(***************************************************************************)
ReplyKeys ==
  { <<"A","C","T","I","O","N">>, <<"R","E","P","O">>, <<"I","S","S","U","E","_","N","U","M","B","E","R">>, <<"I","S","S","U","E","_","T","I","T","L","E">>, <<"I","S","S","U","E","_","B","O","D","Y">>, <<"C","O","M","M","E","N","T">>,
    <<"B","R","A","N","C","H","_","N","A","M","E">>, <<"S","O","U","R","C","E","_","B","R","A","N","C","H">>, <<"M","E","S","S","A","G","E">>, <<"N","O","T","E">> }
ReplyValues == { <<"a",":","b"," ">>, <<"n","u","l","l">>, <<"N","U","L","L">>, <<"1","2">>, <<"x","7">> }
ReplyLines == {key \o <<":"," ">> \o value : key \in ReplyKeys, value \in ReplyValues}
ParsedTexts == ReplyLines \cup {l1 \o <<"\n">> \o l2 : l1, l2 \in ReplyLines}

\* parsed_data = self._parse_structured_response(response_text), kept in the
\* local variable of the classifier node
ParseStructuredResponse ==
  /\ pc = "classify_and_extract"
  /\ \E response_text \in ParsedTexts :
       /\ reply' = ModelReplies(response_text)
       /\ local' = PyDict(parse_structured_response(response_text))
  /\ pc' = "parsed"
  /\ UNCHANGED <<state, visited, calls, remote, exc, output, self, other, integrations_db>>

NextParse ==
  \/ ProcessQueryOf({ <<"h","e","l","l","o">> })
  \/ ParseStructuredResponse

SpecParse == Init /\ [][NextParse]_vars

(***************************************************************************)
(* The issue handlers on replies of the model that give an issue number    *)
(* that is negative, zero or positive                                      *)
(***************************************************************************)
IssueNumbers == { <<"-","5">>, <<"-","1">>, <<"0">>, <<"7">> }
NumberReplies ==
  { <<"A","C","T","I","O","N",":"," ","g","i","t","h","u","b","_","g","e","t","_","i","s","s","u","e","\n","R","E","P","O",":"," ","a","p","i","\n","I","S","S","U","E","_","N","U","M","B","E","R",":"," ">> \o n : n \in IssueNumbers }
  \cup { <<"A","C","T","I","O","N",":"," ","g","i","t","h","u","b","_","c","o","m","m","e","n","t","_","i","s","s","u","e","\n","R","E","P","O",":"," ","a","p","i","\n","C","O","M","M","E","N","T",":"," ","L","G","T","M","\n","I","S","S","U","E","_","N","U","M","B","E","R",":"," ">> \o n :
           n \in IssueNumbers }

NextNumbers ==
  \/ ProcessQueryOf({ <<"h","e","l","l","o">> })
  \/ ClassifyAndExtractOf({ModelReplies(t) : t \in NumberReplies})
  \/ Dispatch
  \/ GetIssueNode
  \/ CommentIssueNode
  \/ FormatResponse

SpecNumbers == Init /\ [][NextNumbers]_vars

(***************************************************************************)
(* The issue content extractor on queries with a descriptive clause of     *)
(* a length below, at and above the length of a title, and without one     *)
(***************************************************************************)
ContentLengths == {1, 2, 10, 20, 30, 40, TitleLen - 2, TitleLen - 1, TitleLen, TitleLen + 1,
                   TitleLen + 2, TitleLen + 3, TitleLen + 4, TitleLen + 10}
ClauseWords == { <<" ","a","b","o","u","t"," ">>, <<":"," ">>, <<" ","t","h","a","t"," ">>, <<" ","w","i","t","h"," ">> }
ContentText(n) == [i \in 1..n |-> IF i % 7 = 0 THEN " " ELSE "x"]
ContentQueries ==
  { <<"r","a","i","s","e"," ","a","n"," ","i","s","s","u","e">> \o w \o ContentText(n) : w \in ClauseWords, n \in ContentLengths }
  \cup { <<"r","a","i","s","e"," ","a","n"," ","i","s","s","u","e">>, <<"c","r","e","a","t","e"," ","i","s","s","u","e"," ","i","n"," ","r","e","p","o"," ","b","i","l","l","i","n","g">> }

\* issue_content = self._extract_issue_content(user_query), kept in the
\* local variable of the fallback
ExtractIssueContent ==
  /\ pc = "classify_and_extract"
  /\ local' = extract_issue_content(state.user_query.v)
  /\ pc' = "extracted"
  /\ UNCHANGED <<state, reply, visited, calls, remote, exc, output, self, other, integrations_db>>

NextContent ==
  \/ ProcessQueryOf(ContentQueries)
  \/ ExtractIssueContent

SpecContent == Init /\ [][NextContent]_vars

(***************************************************************************)
(* Branch creation when the classifier gives a source branch, gives null,  *)
(* gives no SOURCE_BRANCH line, or fails so that the fallback classifies   *)
(***************************************************************************)
SourceQueries ==
  { <<"C","r","e","a","t","e"," ","b","r","a","n","c","h"," ","h","o","t","f","i","x","-","1"," ","i","n"," ","r","e","p","o"," ","s","v","c">>, <<"C","r","e","a","t","e"," ","b","r","a","n","c","h"," ","h","o","t","f","i","x","-","1"," ","f","r","o","m"," ","m","a","i","n"," ","i","n"," ","r","e","p","o"," ","s","v","c">> }
SourceReplies ==
  { <<"A","C","T","I","O","N",":"," ","g","i","t","h","u","b","_","c","r","e","a","t","e","_","b","r","a","n","c","h","\n","R","E","P","O",":"," ","s","v","c","\n","B","R","A","N","C","H","_","N","A","M","E",":"," ","h","o","t","f","i","x","-","1","\n","S","O","U","R","C","E","_","B","R","A","N","C","H",":"," ","m","a","i","n">>,
    <<"A","C","T","I","O","N",":"," ","g","i","t","h","u","b","_","c","r","e","a","t","e","_","b","r","a","n","c","h","\n","R","E","P","O",":"," ","s","v","c","\n","B","R","A","N","C","H","_","N","A","M","E",":"," ","h","o","t","f","i","x","-","1","\n","S","O","U","R","C","E","_","B","R","A","N","C","H",":"," ","n","u","l","l">>,
    <<"A","C","T","I","O","N",":"," ","g","i","t","h","u","b","_","c","r","e","a","t","e","_","b","r","a","n","c","h","\n","R","E","P","O",":"," ","s","v","c","\n","B","R","A","N","C","H","_","N","A","M","E",":"," ","h","o","t","f","i","x","-","1","\n","S","O","U","R","C","E","_","B","R","A","N","C","H",":"," ","N","U","L","L">>,
    <<"A","C","T","I","O","N",":"," ","g","i","t","h","u","b","_","c","r","e","a","t","e","_","b","r","a","n","c","h","\n","R","E","P","O",":"," ","s","v","c","\n","B","R","A","N","C","H","_","N","A","M","E",":"," ","h","o","t","f","i","x","-","1">>,
    <<"A","C","T","I","O","N",":"," ","g","i","t","h","u","b","_","c","r","e","a","t","e","_","b","r","a","n","c","h","\n","R","E","P","O",":"," ","s","v","c","\n","B","R","A","N","C","H","_","N","A","M","E",":"," ","h","o","t","f","i","x","-","2">> }

NextSource ==
  \/ ProcessQueryOf(SourceQueries)
  \/ ClassifyAndExtractOf({ModelRaises} \cup {ModelReplies(t) : t \in SourceReplies})
  \/ Dispatch
  \/ CreateBranchNode
  \/ CreateBranchRef
  \/ FormatResponse

SpecSource == Init /\ [][NextSource]_vars

(***************************************************************************)
(* The constructor, and two invocations of process_query on one processor  *)
(* whose steps interleave: the variables of the invocation that runs are   *)
(* pc .. output, those of the invocation that waits are in other, and a    *)
(* switch from one thread to the other exchanges them.  The processor and  *)
(* the repository are what the two share.  The model call of the           *)
(* classifier raises or asks for the branch hotfix-1, so the nodes the two *)
(* invocations reach are create-branch, general-response and               *)
(* needs-clarification.                                                    *)
(***************************************************************************)
ApiKeys == {None, PyStr(<<>>), PyStr(<<"k","e","y">>)}
Credentials ==
  {[github_token |-> None, slack_token |-> None, github_owner |-> None],
   [github_token |-> PyStr(<<"g","h","p">>), slack_token |-> PyStr(<<"x","o","x","b">>),
    github_owner |-> PyStr(<<"o","w","n","e","r">>)]}
ThreadQueries == {<<"h","e","l","l","o">>, <<"r","a","i","s","e"," ","a","n"," ","i","s","s","u","e"," ","i","n"," ","r","e","p","o"," ","b","i","l","l","i","n","g">>}
ThreadOutcomes ==
  {ModelRaises,
   ModelReplies(<<"A","C","T","I","O","N",":"," ","g","i","t","h","u","b","_","c","r","e","a","t","e","_","b","r","a","n","c","h","\n","R","E","P","O",":"," ","s","v","c","\n","B","R","A","N","C","H","_","N","A","M","E",":"," ","h","o","t","f","i","x","-","1","\n","S","O","U","R","C","E","_","B","R","A","N","C","H",":"," ","m","a","i","n">>)}

\* WorkflowProcessor(gemini_api_key, github_token, slack_token, github_owner)
Construct ==
  /\ self = None
  /\ \E gemini_api_key \in ApiKeys, c \in Credentials :
       /\ self' = init(gemini_api_key, c.github_token, c.slack_token, c.github_owner).self
       /\ exc' = IF init(gemini_api_key, c.github_token, c.slack_token, c.github_owner).raised
                 THEN "ValueError" ELSE NoException
  /\ UNCHANGED <<pc, state, reply, visited, calls, local, remote, output, other, integrations_db>>

\* the invocation that runs
Running ==
  [pc |-> pc, state |-> state, reply |-> reply, visited |-> visited, calls |-> calls,
   local |-> local, exc |-> exc, output |-> output]

\* a switch between two invocations that work on one WorkflowState
SwitchKeepingState ==
  /\ self # None
  /\ other' = Running
  /\ pc' = other.pc
  /\ state' = state
  /\ reply' = other.reply
  /\ visited' = other.visited
  /\ calls' = other.calls
  /\ local' = other.local
  /\ exc' = other.exc
  /\ output' = other.output
  /\ UNCHANGED <<self, remote, integrations_db>>

\* the scheduler takes the thread that runs off the processor and puts the
\* other one on
Switch ==
  /\ self # None
  /\ other' = Running
  /\ pc' = other.pc
  /\ state' = other.state
  /\ reply' = other.reply
  /\ visited' = other.visited
  /\ calls' = other.calls
  /\ local' = other.local
  /\ exc' = other.exc
  /\ output' = other.output
  /\ UNCHANGED <<self, remote, integrations_db>>

NextThreads ==
  \/ Construct
  \/ ProcessQueryOf(ThreadQueries)
  \/ ClassifyAndExtractOf(ThreadOutcomes)
  \/ Dispatch
  \/ CreateBranchNode
  \/ CreateBranchRef
  \/ GeneralResponseNode
  \/ LocalNode
  \/ FormatResponse
  \/ Switch

SpecThreads == NoProcessor /\ [][NextThreads]_vars

(***************************************************************************)
(* Properties                                                              *)
(***************************************************************************)
\* the ten intents with a handler of their own
NamedIntents == DOMAIN DispatchTable \ {unhandled}
\* process_query has returned or has been left by an exception
Finished == pc \in {"done", "raised"}
\* the classifier node has run
Classified == pc \notin {"idle", "classify_and_extract"}
LastCall == calls[Len(calls)]
Endpoints == [i \in DOMAIN calls |-> calls[i].req.endpoint]

\* C1: whatever the query, the model's reply and the services' answers,
\* process_query returns a string and no exception leaves it; in particular
\* a GitHub timeout or connection failure ends in a returned string.
C1_ProcessQueryReturnsString ==
  /\ pc # "raised"
  /\ pc = "done" => output.k = "str"

\* C1, the run that breaks it: the model classifies "List issues for
\* repository my-test-app" as github_list_issues and the GET of the issues
\* times out.
C1_GithubTimeoutLeavesProcessQuery ==
  /\ pc = "raised" /\ exc = "Timeout"
  /\ state.user_query = PyStr(<<"L","i","s","t"," ","i","s","s","u","e","s"," ","f","o","r"," ","r","e","p","o","s","i","t","o","r","y"," ","m","y","-","t","e","s","t","-","a","p","p">>)
  /\ reply = ModelReplies(<<"A","C","T","I","O","N",":"," ","g","i","t","h","u","b","_","l","i","s","t","_","i","s","s","u","e","s","\n","R","E","P","O",":"," ","m","y","-","t","e","s","t","-","a","p","p","\n","I","S","S","U","E","_","N","U","M","B","E","R",":"," ","n","u","l","l">>)
  /\ Endpoints = <<"gemini", "issues">>
  /\ LastCall.resp = HttpTimeout

\* C2: a run whose classified action_type is one of the ten named intents
\* enters classify_and_extract once, then the one node the dispatch table
\* gives the intent, then END, and nothing else.
C2_ClassifyThenOneNodeThenEnd ==
  (Finished /\ state.action_type.k = "str" /\ state.action_type.v \in NamedIntents)
    => visited = <<"classify_and_extract", DispatchTable[state.action_type.v], "END">>

\* C2, the run that breaks it: the handler is left by the exception of its
\* request and END is not reached.
C2_HandlerRaisesBeforeEnd ==
  /\ pc = "raised"
  /\ state.action_type = PyStr(github_get_issue)
  /\ visited = <<"classify_and_extract", "github_get_issue_node">>
  /\ exc = "ConnectionError"

\* C3: an action_type that is none of the ten named intents is routed to the
\* unhandled node, and the run ends with the unhandled response and its
\* non-empty list of suggestions.
C3_UnknownActionGoesToUnhandled ==
  (Finished /\ ~(state.action_type.k = "str" /\ state.action_type.v \in NamedIntents))
    => /\ pc = "done"
       /\ visited = <<"classify_and_extract", "unhandled_action_node", "END">>
       /\ state.api_response.k = "dict"
       /\ "suggestions" \in DOMAIN state.api_response.v
       /\ state.api_response.v["suggestions"].v # <<>>

\* C3, the run that breaks it: the model answers with the bracketed intent,
\* the conditional edge finds no such key, and no node runs.
C3_BracketedActionRaisesKeyError ==
  /\ pc = "raised" /\ exc = "KeyError"
  /\ state.action_type = PyStr(<<"[","g","i","t","h","u","b","_","c","r","e","a","t","e","_","i","s","s","u","e","]">>)
  /\ visited = <<"classify_and_extract">>

\* C4: once the classifier node has run, action_type is a member of the
\* closed intent vocabulary.
C4_ActionTypeInVocabulary ==
  Classified => (state.action_type.k = "str" /\ state.action_type.v \in DOMAIN DispatchTable)

\* C4, the state that breaks it: the reply "ACTION: deploy" is stored as it is.
C4_UnknownActionStored ==
  /\ pc = "dispatch"
  /\ reply = ModelReplies(<<"A","C","T","I","O","N",":"," ","d","e","p","l","o","y">>)
  /\ state.action_type = PyStr(<<"d","e","p","l","o","y">>)

\* the parameters each GitHub handler needs
Requires ==
  (github_create_issue :> {"repo_name"})
  @@ (github_list_issues :> {"repo_name"})
  @@ (github_get_issue :> {"repo_name", "issue_number"})
  @@ (github_comment_issue :> {"repo_name", "issue_number", "comment_body"})
  @@ (github_list_branches :> {"repo_name"})
  @@ (github_get_branch :> {"repo_name", "branch_name"})
  @@ (github_create_branch :> {"repo_name", "branch_name"})
\* the node the run has entered after the classifier
EnteredNode == IF Len(visited) >= 2 THEN visited[2] ELSE "none"
\* a GitHub handler has been entered with one of its parameters absent
ParameterAbsent ==
  /\ state.action_type.k = "str" /\ state.action_type.v \in DOMAIN Requires
  /\ EnteredNode = DispatchTable[state.action_type.v]
  /\ \E key \in Requires[state.action_type.v] : state[key] \in {None, Absent}
HasError(x) == x.k = "dict" /\ "error" \in DOMAIN x.v

\* C5: a GitHub handler entered with a required parameter absent sets
\* error_message and an api_response with an error entry, issues no request,
\* and the output is "Error processing your request: " and the error_message.
C5_MissingParameterFailsWithoutCall ==
  ParameterAbsent =>
    /\ pc \in {"END", "done"}
    /\ state.error_message.k = "str"
    /\ HasError(state.api_response)
    /\ Endpoints = <<"gemini">>
    /\ pc = "done" =>
         output = PyStr(<<"E","r","r","o","r"," ","p","r","o","c","e","s","s","i","n","g"," ","y","o","u","r"," ","r","e","q","u","e","s","t",":"," ">> \o state.error_message.v)

\* C5, its case: the model gives github_create_issue with no repository.
C5_CreateIssueWithoutRepo ==
  /\ pc = "done"
  /\ EnteredNode = "github_create_issue_node"
  /\ state.repo_name = None
  /\ Endpoints = <<"gemini">>
  /\ output = PyStr(<<"E","r","r","o","r"," ","p","r","o","c","e","s","s","i","n","g"," ","y","o","u","r"," ","r","e","q","u","e","s","t",":"," ","R","e","p","o"," ","n","a","m","e"," ","m","i","s","s","i","n","g">>)

\* the message _extract_slack_target finds in the query of the run
SlackMessage == extract_slack_target(state.user_query.v).message

\* C6: when the Slack target extraction finds no message, chat.postMessage
\* is not called and the handler's result is an error.
C6_NoPostWithoutMessage ==
  (EnteredNode = "slack_message_node" /\ SlackMessage = None) =>
    /\ \A i \in DOMAIN calls : Endpoints[i] # "chat.postMessage"
    /\ pc \in {"END", "done"} => state.api_response.v["ok"] = PyBool(FALSE)

\* C6, the run that breaks it: " to alice send" has the user alice and no
\* message, and the handler posts the message None to her.
C6_PostsMessageNone ==
  /\ pc = "done"
  /\ state.user_query = PyStr(<<" ","t","o"," ","a","l","i","c","e"," ","s","e","n","d">>)
  /\ SlackMessage = None
  /\ Endpoints = <<"gemini", "users.list", "conversations.open", "chat.postMessage">>
  /\ LastCall.req.data.v["text"] = None
  /\ state.api_response.v["ok"] = PyBool(TRUE)

IsLookup(c) == c.req.endpoint = "git/refs/heads/{name}"
IsCreateRef(c) == c.req.endpoint = "git/refs"
Answered200(c) == c.resp.kind = "response" /\ c.resp.status = 200
AnsweredNot200(c) == c.resp.kind = "response" /\ c.resp.status # 200

\* C7, in every state: a create-ref POST follows a lookup answered 200 and
\* carries its SHA; a lookup answered otherwise is the last request of the
\* run, which ends with a failure result.
C7_Lookup ==
  /\ \A i \in DOMAIN calls :
       IsCreateRef(calls[i]) =>
         /\ i > 1 /\ IsLookup(calls[i - 1]) /\ Answered200(calls[i - 1])
         /\ calls[i].req.data.v["sha"] = calls[i - 1].resp.json.v["object"].v["sha"]
  /\ pc = "git/refs" =>
       /\ IsLookup(LastCall) /\ Answered200(LastCall)
       /\ local = LastCall.resp.json.v["object"].v["sha"]
  /\ \A i \in DOMAIN calls :
       (IsLookup(calls[i]) /\ AnsweredNot200(calls[i])) =>
         /\ i = Len(calls)
         /\ pc \in {"END", "done"}
         /\ HasError(state.api_response)
         /\ pc = "done" =>
              StartsWith(output.v, <<"A","P","I"," ","E","r","r","o","r"," ","(","g","i","t","h","u","b","_","c","r","e","a","t","e","_","b","r","a","n","c","h",")",":"," ","C","o","u","l","d"," ","n","o","t"," ","f","i","n","d"," ","s","o","u","r","c","e"," ","b","r","a","n","c","h"," ","'">>)

\* C7: the create-ref POST is issued only after a successful lookup, with the
\* SHA the lookup returned; after a non-200 lookup the handler returns a
\* failure, create-ref is not called, and the remote's set of branches
\* changes in no step but a create-ref POST.
C7_CreateRefOnlyAfterLookup ==
  /\ []C7_Lookup
  /\ [][DOMAIN remote' # DOMAIN remote =>
          (Len(calls') = Len(calls) + 1 /\ IsCreateRef(calls'[Len(calls')]))]_vars

\* C7, its case: the lookup of main succeeds, the POST carries its SHA and
\* the branch exists afterwards.
C7_BranchCreatedFromLookup ==
  /\ pc = "done"
  /\ Endpoints = <<"gemini", "git/refs/heads/{name}", "git/refs">>
  /\ calls[2].resp.status = 200
  /\ calls[3].req.data.v["sha"] = Sha(1)
  /\ calls[3].resp.status = 201
  /\ <<"h","o","t","f","i","x","-","1">> \in DOMAIN remote

\* a request to GitHub names the repository; the run is over after it
IsGithub(c) == c.req.repo # None /\ c.resp.kind = "response"
RunOver == pc \in {"END", "done", "raised"}
\* the handler was left by an exception (the formatter raises after END)
HandlerRaised == pc = "raised" /\ visited[Len(visited)] # "END"
\* {"error": "GitHub API Error: <status>", "details": <raw body>}
ErrorShape(resp) ==
  PyDict([error |-> PyStr(<<"G","i","t","H","u","b"," ","A","P","I"," ","E","r","r","o","r",":"," ">> \o IntToStr(resp.status)),
          details |-> PyStr(resp.text)])
\* "API Error (<action>): <error>. Details: <details>"
ErrorLine(error) ==
  PyStr(<<"A","P","I"," ","E","r","r","o","r"," ","(">> \o state.action_type.v \o <<")",":"," ">> \o error.v["error"].v
        \o <<"."," ","D","e","t","a","i","l","s",":"," ">> \o error.v["details"].v)

Accepted(c) == IF c.req.method = "GET" THEN {200} ELSE {200, 201}
\* the error a helper returns for a status it does not accept
ErrorFor(c) ==
  IF IsLookup(c)
  THEN PyDict([error |-> PyStr(<<"C","o","u","l","d"," ","n","o","t"," ","f","i","n","d"," ","s","o","u","r","c","e"," ","b","r","a","n","c","h"," ","'">> \o PyToStr(c.req.item) \o <<"'">>),
               details |-> PyStr(c.resp.text)])
  ELSE ErrorShape(c.resp)

FallbackEngaged ==
  \/ reply.raised
  \/ parse_structured_response(Strip(reply.text))["action_type"] = PyStr(unhandled)
Query == state.user_query.v

\* C9: when the model call raises or its reply parses to unhandled, the state
\* after the classifier is the initial state updated with the fallback's
\* result for the query, and the output does not show the reply.
C9_ClassifierResultIsFallbackResult ==
  /\ (pc = "dispatch" /\ FallbackEngaged) =>
       state = Merge(initial_state(Query), fallback_classification(Query))
  /\ (pc = "done" /\ FallbackEngaged /\ ~reply.raised) =>
       ~Contains(output.v, Strip(reply.text))

\* C9, its case: the reply has no ACTION line and the fallback classifies
\* "List issues for repository my-test-app".
C9_UnparseableReplyFallsBack ==
  /\ pc = "dispatch"
  /\ reply = ModelReplies(<<"I"," ","c","a","n","n","o","t"," ","h","e","l","p"," ","w","i","t","h"," ","t","h","a","t",".">>)
  /\ Query = <<"L","i","s","t"," ","i","s","s","u","e","s"," ","f","o","r"," ","r","e","p","o","s","i","t","o","r","y"," ","m","y","-","t","e","s","t","-","a","p","p">>
  /\ state.action_type = PyStr(github_list_issues)
  /\ state.repo_name = PyStr(<<"m","y","-","t","e","s","t","-","a","p","p">>)

\* a query with a list word and an issue word and no greeting, question or
\* create word
ListIssuesQuery(query) ==
  LET query_lower == Strip(ToLower(query))
  IN /\ ContainsAny(query_lower, list_patterns)
     /\ ContainsAny(query_lower, issue_patterns)
     /\ ~ContainsAny(query_lower, greeting_patterns)
     /\ ~ContainsAny(query_lower, question_patterns)
     /\ ~ContainsAny(query_lower, create_patterns)

\* C10: when the fallback has run, action_type is not unhandled; for a query
\* with a list word and an issue word (no greeting, question or create word)
\* it is github_list_issues with repo_name the extracted name, "x" for
\* "list issues in repo x".
C10_FallbackFindsIntent ==
  (Classified /\ FallbackEngaged) =>
    /\ state.action_type # PyStr(unhandled)
    /\ ListIssuesQuery(Query) =>
         /\ state.action_type = PyStr(github_list_issues)
         /\ state.repo_name = extract_repo_name(Query)
    /\ Query = <<"l","i","s","t"," ","i","s","s","u","e","s"," ","i","n"," ","r","e","p","o"," ","x">> => state.repo_name = PyStr(<<"x">>)

\* C10, its case: the model call raises on "list issues in repo x".
C10_ListIssuesInRepoX ==
  /\ pc = "dispatch"
  /\ reply.raised
  /\ Query = <<"l","i","s","t"," ","i","s","s","u","e","s"," ","i","n"," ","r","e","p","o"," ","x">>
  /\ ListIssuesQuery(Query)
  /\ state.action_type = PyStr(github_list_issues)
  /\ state.repo_name = PyStr(<<"x">>)

\* the three lines the formatter writes before it looks at the intent
ErrorMessageLine == PyStr(<<"E","r","r","o","r"," ","p","r","o","c","e","s","s","i","n","g"," ","y","o","u","r"," ","r","e","q","u","e","s","t",":"," ">> \o PyToStr(state.error_message))
NoResponseLine == PyStr(<<"N","o"," ","A","P","I"," ","r","e","s","p","o","n","s","e"," ","w","a","s"," ","r","e","c","e","i","v","e","d",".">>)
ApiErrorLine ==
  PyStr(<<"A","P","I"," ","E","r","r","o","r"," ","(">> \o PyToStr(state.action_type) \o <<")",":"," ">>
        \o PyToStr(state.api_response.v["error"]) \o <<"."," ","D","e","t","a","i","l","s",":"," ">>
        \o (IF "details" \in DOMAIN state.api_response.v
            THEN PyToStr(state.api_response.v["details"]) ELSE <<"N","/","A">>))
\* the output is one of the templates of the intents
TemplateUsed ==
  /\ ~StartsWith(output.v, <<"E","r","r","o","r"," ","p","r","o","c","e","s","s","i","n","g"," ","y","o","u","r"," ","r","e","q","u","e","s","t",":"," ">>)
  /\ output # NoResponseLine
  /\ ~StartsWith(output.v, <<"A","P","I"," ","E","r","r","o","r"," ","(">>)

\* C11: in every final state the formatter has rendered, a set error_message
\* gives the prefixed error_message whatever api_response and action_type
\* are; else an api_response that is absent (or empty) gives the fixed
\* no-response line; else an api_response with an error entry gives
\* "API Error (<action>): <error>. Details: <details or N/A>"; and a template
\* of an intent is the output only when none of the three applies.
C11_FormatterChecksInOrder ==
  pc = "done" =>
    /\ Truthy(state.error_message) => output = ErrorMessageLine
    /\ (~Truthy(state.error_message) /\ ~Truthy(state.api_response)) => output = NoResponseLine
    /\ (~Truthy(state.error_message) /\ HasError(state.api_response)) => output = ApiErrorLine
    /\ TemplateUsed =>
         /\ ~Truthy(state.error_message)
         /\ Truthy(state.api_response)
         /\ ~HasError(state.api_response)

\* C11, its case: the list-issues handler without a repository sets both
\* error_message and an api_response with an error entry, and the output is
\* the error_message.
C11_ErrorMessageBeforeApiError ==
  /\ pc = "done"
  /\ state.action_type = PyStr(github_list_issues)
  /\ state.error_message = PyStr(<<"R","e","p","o"," ","n","a","m","e"," ","m","i","s","s","i","n","g">>)
  /\ HasError(state.api_response)
  /\ output = PyStr(<<"E","r","r","o","r"," ","p","r","o","c","e","s","s","i","n","g"," ","y","o","u","r"," ","r","e","q","u","e","s","t",":"," ","R","e","p","o"," ","n","a","m","e"," ","m","i","s","s","i","n","g">>)

\* the run has listed the issues of a repository and the service's answer,
\* a list, is the api_response
IssuesListed ==
  /\ pc = "done"
  /\ state.action_type = PyStr(github_list_issues)
  /\ ~Truthy(state.error_message)
  /\ state.api_response.k = "list"
\* "#<number> - <title>" of the j-th issue of the response
IssueLine(j) ==
  <<"#">> \o PyToStr(state.api_response.v[j].v["number"]) \o <<" ","-"," ">>
  \o PyToStr(state.api_response.v[j].v["title"])
\* what the output is to be for the n issues of the response
IssuesSummary(n) ==
  <<"U+1F4CB"," ","F","o","u","n","d"," ">> \o IntToStr(n) \o <<" ","i","s","s","u","e","s"," ","i","n"," ","r","e","p","o"," ","'">> \o PyToStr(state.repo_name) \o <<"'",":","\n">>
  \o Join([j \in 1..Min(n, 3) |-> IssueLine(j)], <<"\n">>)
  \o (IF n > 3 THEN <<"\n",".",".","."," ","a","n","d"," ">> \o IntToStr(n - 3) \o <<" ","m","o","r","e",".">> ELSE <<>>)

\* C12: for a list-issues response of n issues, n >= 0, the output is
\* "Found n issues in repo '<repo_name>':", then the first min(n, 3) issues
\* in the order of the response as "#<number> - <title>", then
\* "... and N more." with N = n - 3 exactly when n > 3.
C12_ListIssuesSummary ==
  IssuesListed => output = PyStr(IssuesSummary(Len(state.api_response.v)))

\* C12, the run that breaks it: the repository has no issue, the service
\* answers 200 with the empty list, and the output is the no-response line.
C12_EmptyListIsNoResponse ==
  /\ IssuesListed
  /\ LastCall.req.endpoint = "issues" /\ LastCall.resp.status = 200
  /\ state.api_response = PyList(<<>>)
  /\ output = PyStr(<<"N","o"," ","A","P","I"," ","r","e","s","p","o","n","s","e"," ","w","a","s"," ","r","e","c","e","i","v","e","d",".">>)

\* C12, the lists it holds for: one to MaxIssues issues.
C12_NonEmptyListSummary ==
  (IssuesListed /\ state.api_response.v # <<>>) =>
    output = PyStr(IssuesSummary(Len(state.api_response.v)))

\* the output is the line of the formatter's last return
GenericLine ==
  /\ StartsWith(output.v, <<"A","c","t","i","o","n"," ","'">>)
  /\ Contains(output.v, <<"'"," ","c","o","m","p","l","e","t","e","d","."," ","R","a","w"," ","r","e","s","p","o","n","s","e",":"," ">>)
\* the question _needs_clarification_node asks about the repository of the run
ClarificationQuestion ==
  <<"I"," ","u","n","d","e","r","s","t","a","n","d"," ","y","o","u"," ","w","a","n","t"," ","t","o"," ","c","r","e","a","t","e"," ","a","n"," ","i","s","s","u","e"," ","i","n"," ">> \o PyToStr(state.repo_name)
  \o <<"."," ","W","h","a","t"," ","s","p","e","c","i","f","i","c"," ","p","r","o","b","l","e","m"," ","o","r"," ","f","e","a","t","u","r","e"," ","w","o","u","l","d"," ","y","o","u"," ","l","i","k","e"," ","t","o"," ","r","e","p","o","r","t","?">>

\* C13: the line "Action '<x>' completed. Raw response: <json>" is the output
\* only for an action_type that is none of the eleven intents, and a final
\* state of needs_clarification is rendered as the question that asks what
\* to report and names the repository.
C13_EveryIntentHasFormatterCase ==
  pc = "done" =>
    /\ GenericLine =>
         (state.action_type.k # "str" \/ state.action_type.v \notin DOMAIN DispatchTable)
    /\ state.action_type = PyStr(needs_clarification) => output = PyStr(ClarificationQuestion)

\* C13, the run that breaks it: "raise an issue in repo billing" is
\* classified needs_clarification, for which the formatter has no case, and
\* the output is the generic line with the node's dict as JSON.
C13_ClarificationIsRawResponse ==
  /\ pc = "done"
  /\ Query = <<"r","a","i","s","e"," ","a","n"," ","i","s","s","u","e"," ","i","n"," ","r","e","p","o"," ","b","i","l","l","i","n","g">>
  /\ state.action_type = PyStr(needs_clarification)
  /\ state.repo_name = PyStr(<<"b","i","l","l","i","n","g">>)
  /\ state.api_response.v["message"] = PyStr(ClarificationQuestion)
  /\ output = PyStr(<<"A","c","t","i","o","n"," ","'","n","e","e","d","s","_","c","l","a","r","i","f","i","c","a","t","i","o","n","'"," ","c","o","m","p","l","e","t","e","d","."," ","R","a","w"," ","r","e","s","p","o","n","s","e",":"," ">>
                    \o JsonDumps(state.api_response, 0))

\* C14, in every state: the constructor raises exactly for a model API key
\* that is None or empty, whatever the tokens and the owner are; while no
\* processor exists no invocation of process_query has begun; a processor
\* that exists has a model client built with a non-empty key, and its graph.
C14_Processor ==
  /\ \A gemini_api_key \in ApiKeys, c \in Credentials :
       LET r == init(gemini_api_key, c.github_token, c.slack_token, c.github_owner)
       IN /\ r.raised <=> gemini_api_key \in {None, PyStr(<<>>)}
          /\ r.raised => r.self = None
          /\ ~r.raised =>
               /\ r.self.model.api_key = gemini_api_key
               /\ r.self.github_token = c.github_token
               /\ r.self.slack_token = c.slack_token
               /\ r.self.github_owner = c.github_owner
  /\ self = None => (Running \in {NoRun, [NoRun EXCEPT !.exc = "ValueError"]} /\ other = NoRun)
  /\ exc = "ValueError" => self = None
  /\ self # None => (Truthy(self.model.api_key) /\ self.app = "compiled graph")

\* C14: constructing the processor with an absent or empty model API key
\* fails with ValueError and builds neither the model client nor the graph,
\* so process_query has no processor to be called on; with a non-empty key
\* the construction succeeds whatever the tokens and the owner are.
C14_ConstructionNeedsModelKey ==
  /\ []C14_Processor
  /\ [][(self = None /\ self' = None) => exc' = "ValueError"]_vars

\* C14, its case: the constructor was called with no key, ValueError left
\* it, and there is no processor.
C14_ConstructorRaised ==
  /\ self = None
  /\ exc = "ValueError"
  /\ Running = [NoRun EXCEPT !.exc = "ValueError"]

\* C14, the other case: a processor built with None for the tokens and the
\* owner has answered a query.
C14_BuiltWithoutTokens ==
  /\ self # None
  /\ self.github_token = None /\ self.slack_token = None /\ self.github_owner = None
  /\ pc = "done"

\* the answer to the i-th request of the log of a run
AnswerAt(log, i) == IF i <= Len(log) THEN log[i].resp ELSE None
\* a step of the Slack helper by the request it makes
SlackStepAt(endpoint, locals, resp) ==
  CASE endpoint = "users.list" -> slack_users_list(locals, resp)
    [] endpoint = "conversations.open" -> slack_conversations_open(locals, resp)
    [] endpoint = "conversations.list" -> slack_conversations_list(locals, resp)
    [] endpoint = "conversations.list private" -> slack_private_channels_list(locals, resp)
    [] endpoint = "chat.postMessage" -> slack_post_message(locals, resp)
\* the Slack node from the step result r on, its next request being the i-th
RECURSIVE SlackAlone(_, _, _)
SlackAlone(r, log, i) ==
  IF r.next = "return" THEN NodeDone(<<>>, [api_response |-> r.ret])
  ELSE SlackAlone(SlackStepAt(r.next, r.local, AnswerAt(log, i)), log, i + 1)
\* the create-branch node from the result r of the lookup on
BranchAlone(st, r, log) ==
  IF r.go THEN create_branch_node_ref(st, r.sha, AnswerAt(log, 3)) ELSE r
\* the node of the graph, on the state st, with the answers of log
NodeAlone(node, st, log) ==
  CASE node = "github_create_issue_node" -> create_issue_node(st, AnswerAt(log, 2))
    [] node = "github_list_issues_node" -> list_issues_node(st, AnswerAt(log, 2))
    [] node = "github_get_issue_node" -> get_issue_node(st, AnswerAt(log, 2))
    [] node = "github_comment_issue_node" -> comment_issue_node(st, AnswerAt(log, 2))
    [] node = "github_list_branches_node" -> list_branches_node(st, AnswerAt(log, 2))
    [] node = "github_get_branch_node" -> get_branch_node(st, AnswerAt(log, 2))
    [] node = "github_create_branch_node" ->
         BranchAlone(st, create_branch_node(st, AnswerAt(log, 2)), log)
    [] node = "slack_message_node" -> SlackAlone(slack_message_node(st), log, 2)
    [] node = "general_response_node" -> general_response_node(st, AnswerAt(log, 2))
    [] node = "needs_clarification_node" -> needs_clarification_node(st)
    [] node = "unhandled_action_node" -> unhandled_action_node(st)
\* how process_query ends: the exception that leaves it or the text it
\* returns, and the WorkflowState it worked on
Ended(e, text, st) == [exc |-> e, output |-> text, state |-> st]
Formatted(st, f) ==
  IF f.raised THEN Ended("AttributeError", None, st) ELSE Ended(NoException, f.out, st)
AfterNode(st, r, log) ==
  IF r.raised THEN Ended(Exception(log[Len(log)].resp), None, st)
  ELSE Formatted(Merge(st, r.delta), format_response(Merge(st, r.delta)))
AfterClassifier(st, log) ==
  IF Route(st) = "KeyError" THEN Ended("KeyError", None, st)
  ELSE AfterNode(st, NodeAlone(Route(st), st, log), log)
\* process_query(user_query) run on its own, the services answering its
\* requests as the log tells
RunAlone(user_query, log) ==
  AfterClassifier(Merge(initial_state(user_query),
                        classify_and_extract_parameters_node(initial_state(user_query),
                                                             log[1].resp)), log)

\* an invocation that is over has ended as it ends when run on its own
EndsAsAlone(run) ==
  run.pc \in {"done", "raised"} =>
    Ended(run.exc, run.output, run.state) = RunAlone(run.state.user_query.v, run.calls)

\* C15, in every state: each of the two invocations, once it is over, has
\* the state, the output or the exception it has when it runs alone with
\* the same answers of the model and of the services.
C15_EachEndsAsAlone == EndsAsAlone(Running) /\ EndsAsAlone(other)

Service(c) ==
  IF c.req.method = "generate_content" THEN "model"
  ELSE IF c.req.repo # None THEN "github"
  ELSE "slack"
\* the request failed: the call raised or timed out, or the answer has an
\* error status (for Slack also a body that is no JSON or has ok false)
Failed(c) ==
  CASE Service(c) = "model" -> c.resp.raised
    [] Service(c) = "github" -> c.resp.kind # "response" \/ c.resp.status \notin 200..299
    [] Service(c) = "slack" ->
         \/ c.resp.kind # "response"
         \/ c.resp.status # 200
         \/ c.resp.json = Undecodable
         \/ ~Truthy(DictGet(c.resp.json, "ok", None))
\* no request of services follows a failed request to the same service
NoCallAfterFailure(services) ==
  \A i \in DOMAIN calls : \A j \in DOMAIN calls :
    (i < j /\ Service(calls[i]) \in services /\ Failed(calls[i]))
      => Service(calls[j]) # Service(calls[i])

\* C16: within one run of process_query, after a call to the language
\* model, to GitHub or to Slack has failed, no further call goes to the
\* same service.
C16_NoCallAfterFailure == NoCallAfterFailure({"model", "github", "slack"})

\* C16, the run that breaks it: the classifier's model call raises on
\* "hello", the fallback classifies general_response, and the node of that
\* intent calls the model again.
C16_ModelCalledAgain ==
  /\ pc = "done"
  /\ Query = <<"h","e","l","l","o">>
  /\ Endpoints = <<"gemini", "gemini">>
  /\ calls[1].resp.raised
  /\ state.action_type = PyStr(general_response)

\* C16, the services it holds for: GitHub and Slack.
C16_NoHttpCallAfterFailure == NoCallAfterFailure({"github", "slack"})

RuleHolds(rule, query_lower, issue_number, branch_name) ==
  CASE rule = 1 -> ContainsAny(query_lower, greeting_patterns)
                   \/ ContainsAny(query_lower, question_patterns)
    [] rule = 2 -> ContainsAny(query_lower, create_patterns)
                   /\ ContainsAny(query_lower, issue_patterns)
    [] rule = 3 -> ContainsAny(query_lower, list_patterns)
                   /\ ContainsAny(query_lower, issue_patterns)
    [] rule = 4 -> Truthy(issue_number)
                   /\ ContainsAny(query_lower, << <<"s","h","o","w">>, <<"g","e","t">>, <<"d","e","t","a","i","l","s">> >>)
    [] rule = 5 -> Truthy(issue_number)
                   /\ ContainsAny(query_lower, << <<"c","o","m","m","e","n","t">>, <<"r","e","p","l","y">> >>)
    [] rule = 6 -> ContainsAny(query_lower, slack_patterns)
    [] rule = 7 -> ContainsAny(query_lower, branch_patterns)
                   /\ (ContainsAny(query_lower, create_branch_patterns)
                       \/ ContainsAny(query_lower, list_branch_patterns)
                       \/ Truthy(branch_name))
    [] rule = 8 -> TRUE

\* the intents a rule returns
RuleIntents(rule) ==
  CASE rule = 1 -> {general_response}
    [] rule = 2 -> {needs_clarification, github_create_issue}
    [] rule = 3 -> {github_list_issues}
    [] rule = 4 -> {github_get_issue}
    [] rule = 5 -> {github_comment_issue}
    [] rule = 6 -> {slack_send_message}
    [] rule = 7 -> {github_create_branch, github_list_branches, github_get_branch}
    [] rule = 8 -> {general_response}

\* the rules that hold for the query of the running invocation
RulesHolding ==
  {rule \in 1..8 : RuleHolds(rule, Strip(ToLower(state.user_query.v)),
                             extract_issue_number(state.user_query.v),
                             extract_branch_name(state.user_query.v))}

FirstHolding(rules) == CHOOSE rule \in rules : \A later \in rules : rule <= later

\* the classifier node has taken the fallback
FellBack == pc = "dispatch" /\ reply = ModelRaises

\* C18: the fallback returns the intent of the first rule, in the order
\* greeting/question, create-issue, list-issue, get-issue, comment-issue,
\* slack, branch, default, whose condition holds for the query, whatever
\* later rules hold as well.
C18_FirstMatchingRuleWins ==
  FellBack => state.action_type.v \in RuleIntents(FirstHolding(RulesHolding))

\* C18, its case: a query for which the list-issue and the get-issue rule
\* both hold is classified github_list_issues.
C18_ListIssueBeforeGetIssue ==
  /\ FellBack
  /\ {3, 4} \subseteq RulesHolding
  /\ FirstHolding(RulesHolding) = 3
  /\ state.action_type = PyStr(github_list_issues)

\* a query for which the slack and the branch rule both hold is classified
\* slack_send_message
C18_SlackBeforeBranch ==
  /\ FellBack
  /\ {6, 7} \subseteq RulesHolding
  /\ FirstHolding(RulesHolding) = 6
  /\ state.action_type = PyStr(slack_send_message)

\* a query with a branch keyword for which none of the three cases of the
\* branch rule applies is classified by the default
C18_BranchKeywordAlone ==
  /\ FellBack
  /\ ContainsAny(Strip(ToLower(state.user_query.v)), branch_patterns)
  /\ FirstHolding(RulesHolding) = 8

\* the field a key of the reply is parsed into
FieldOfKey ==
  [key \in ReplyKeys \ { <<"N","O","T","E">> } |->
     CASE key = <<"A","C","T","I","O","N">> -> "action_type"
       [] key = <<"R","E","P","O">> -> "repo_name"
       [] key = <<"I","S","S","U","E","_","N","U","M","B","E","R">> -> "issue_number"
       [] key = <<"I","S","S","U","E","_","T","I","T","L","E">> -> "issue_title"
       [] key = <<"I","S","S","U","E","_","B","O","D","Y">> -> "issue_body"
       [] key = <<"C","O","M","M","E","N","T">> -> "comment_body"
       [] key = <<"B","R","A","N","C","H","_","N","A","M","E">> -> "branch_name"
       [] key = <<"S","O","U","R","C","E","_","B","R","A","N","C","H">> -> "source_branch"
       [] key = <<"M","E","S","S","A","G","E">> -> "message"]

\* parsed.get(field)
ParsedField(parsed, field) == IF field \in DOMAIN parsed THEN parsed[field] ELSE None

\* the value a line with a recognized key gives its field: None for null in
\* any letter case, the integer for ISSUE_NUMBER (None if it is none), the
\* trimmed text after the first colon otherwise
ValueOfLine(key, value, int) ==
  IF ToLower(value) = <<"n","u","l","l">> THEN None
  ELSE IF key = <<"I","S","S","U","E","_","N","U","M","B","E","R">> THEN (IF int.ok THEN PyInt(int.n) ELSE None)
  ELSE PyStr(value)

\* the lines of a reply that start with the key
LinesOf(lines, key) == SelectSeq(lines, LAMBDA line : StartsWith(Strip(line), key \o <<":">>))

\* a key the reply holds once has set its field as a line of the key does
KeySetsField(parsed, lines, key) ==
  Len(lines) = 1 =>
    ParsedField(parsed, FieldOfKey[key])
      = ValueOfLine(key, LineValue(Strip(lines[1])), ParseInt(LineValue(Strip(lines[1]))))

\* a field none of whose lines is in the reply is as before the loop
FieldUntouched(parsed, lines, key) ==
  lines = <<>> =>
    ParsedField(parsed, FieldOfKey[key])
      = (IF key = <<"A","C","T","I","O","N">> THEN PyStr(unhandled) ELSE None)

ParsedAsStated(parsed, lines, keys) ==
  \A key \in keys :
    /\ KeySetsField(parsed, LinesOf(lines, key), key)
    /\ FieldUntouched(parsed, LinesOf(lines, key), key)

\* C19: after parsing a reply every recognized key (ACTION, REPO,
\* ISSUE_NUMBER, ISSUE_TITLE, ISSUE_BODY, COMMENT, BRANCH_NAME,
\* SOURCE_BRANCH, MESSAGE) has set its field to the trimmed text after the
\* first colon, the value null in any letter case is None for every key, an
\* ISSUE_NUMBER that is no integer leaves issue_number None, and lines with
\* another key change nothing.
C19_EveryKeySetsItsField ==
  pc = "parsed" =>
    ParsedAsStated(local.v, Split(reply.text, "\n"), DOMAIN FieldOfKey)

\* C19, its case: a reply with a MESSAGE line has been parsed and the parsed
\* dict holds no message.
C19_MessageLineDropped ==
  /\ pc = "parsed"
  /\ reply.text = <<"M","E","S","S","A","G","E",":"," ","a",":","b"," ">>
  /\ "message" \notin DOMAIN local.v

\* the action null is kept as the text of the intent
C19_NullActionKept ==
  /\ pc = "parsed"
  /\ reply.text = <<"A","C","T","I","O","N",":"," ","N","U","L","L">>
  /\ local.v.action_type = PyStr(<<"N","U","L","L">>)

\* the keys with a case in the parser, apart from ACTION, are parsed as
\* stated; so is an ACTION whose value is not null
C19_KeysWithACaseAreParsed ==
  pc = "parsed" =>
    /\ ParsedAsStated(local.v, Split(reply.text, "\n"),
                      DOMAIN FieldOfKey \ { <<"M","E","S","S","A","G","E">>, <<"A","C","T","I","O","N">> })
    /\ \A line \in ReplyLines :
         (LinesOf(Split(reply.text, "\n"), <<"A","C","T","I","O","N">>) = <<line>>
            /\ ToLower(LineValue(line)) # <<"n","u","l","l">>)
         => local.v.action_type = PyStr(LineValue(line))

\* a line that gives ISSUE_NUMBER no integer leaves the number an earlier
\* line has set
C19_EarlierNumberKept ==
  /\ pc = "parsed"
  /\ reply.text = <<"I","S","S","U","E","_","N","U","M","B","E","R",":"," ","1","2","\n","I","S","S","U","E","_","N","U","M","B","E","R",":"," ","x","7">>
  /\ local.v.issue_number = PyInt(12)

\* the requests of the run that went to a Slack endpoint
SlackCalls(endpoint) == {i \in DOMAIN calls : calls[i].req.endpoint = endpoint}

\* users.list succeeded and a member matched; conversations.list (public or
\* private) succeeded and holds the name
UserFound(c, user) ==
  ~Failed(c) /\ Truthy(FirstMemberId(DictGet(c.resp.json, "members", PyList(<<>>)).v, 1, user))
ChannelFound(c, channel_name) ==
  ~Failed(c) /\ Truthy(FirstChannelId(DictGet(c.resp.json, "channels", PyList(<<>>)).v, 1, channel_name))
PublicMiss(j, channel_name) ==
  j \in SlackCalls("conversations.list") /\ ~Failed(calls[j]) /\ ~ChannelFound(calls[j], channel_name)

\* the target of the message: the user, or else the channel without its #
ChannelName(target) ==
  IF target.channel.k = "str" THEN PyStr(LStrip(target.channel.v, "#")) ELSE None

\* what came before the post calls[i]
PostResolved(i, target) ==
  IF Truthy(target.user)
  THEN \E j \in SlackCalls("users.list"), k \in SlackCalls("conversations.open") :
         j < k /\ k < i /\ UserFound(calls[j], target.user) /\ ~Failed(calls[k])
  ELSE \/ \E j \in SlackCalls("conversations.list") :
            j < i /\ ChannelFound(calls[j], ChannelName(target))
       \/ \E j \in DOMAIN calls, k \in SlackCalls("conversations.list private") :
            j < k /\ k < i /\ PublicMiss(j, ChannelName(target))
            /\ ChannelFound(calls[k], ChannelName(target))

\* the helper has returned without a post and its result is an error with
\* the name in it
NotPostedNaming(name) ==
  /\ SlackCalls("chat.postMessage") = {}
  /\ pc \in {"END", "done"} =>
       /\ DictGet(state.api_response, "ok", None) = PyBool(FALSE)
       /\ Contains(DictGet(state.api_response, "error", None).v, name.v)

\* the user is not among the members; the channel is in neither list
UserUnresolved(target) ==
  /\ Truthy(target.user)
  /\ \E j \in SlackCalls("users.list") : ~Failed(calls[j]) /\ ~UserFound(calls[j], target.user)
ChannelUnresolved(target) ==
  \E j \in DOMAIN calls, k \in SlackCalls("conversations.list private") :
    /\ PublicMiss(j, ChannelName(target))
    /\ ~Failed(calls[k]) /\ ~ChannelFound(calls[k], ChannelName(target))

\* at most one post, after the resolution of its path; the private list is
\* requested only after the public list had no match; no post and an error
\* naming the target if the target is not found
PostedOnceWhenResolved(target) ==
  /\ Cardinality(SlackCalls("chat.postMessage")) <= 1
  /\ \A i \in SlackCalls("chat.postMessage") : PostResolved(i, target)
  /\ \A k \in SlackCalls("conversations.list private") :
       \E j \in DOMAIN calls : j < k /\ PublicMiss(j, ChannelName(target))
  /\ UserUnresolved(target) => NotPostedNaming(target.user)
  /\ ChannelUnresolved(target) => NotPostedNaming(ChannelName(target))

\* every post carries a channel id
PostsHaveChannelId ==
  \A i \in SlackCalls("chat.postMessage") : DictGet(calls[i].req.data, "channel", None).k = "str"

\* the Slack handler has issued a request in the running invocation
InSlackHandler == \E i \in DOMAIN calls : Service(calls[i]) = "slack"

\* C20: in the Slack handler chat.postMessage is called at most once per
\* query and only with a resolved channel id that is not null: on the user
\* path after users.list succeeded, a member matched and conversations.open
\* succeeded, on the channel path after the name was found in the public or,
\* failing that, the private list, which is requested only when the public
\* list had no match; if the user or channel is not found nothing is posted
\* and the result is an error naming the target.
C20_PostOnceWithResolvedChannel ==
  InSlackHandler =>
    /\ PostedOnceWhenResolved(extract_slack_target(state.user_query.v))
    /\ PostsHaveChannelId

\* C20, its case: conversations.open was answered ok without a channel and
\* the message has been posted with the channel id None.
C20_PostedWithoutChannelId ==
  /\ \E k \in SlackCalls("conversations.open") :
       ~Failed(calls[k]) /\ "channel" \notin DOMAIN calls[k].resp.json.v
  /\ \E i \in SlackCalls("chat.postMessage") : calls[i].req.data.v.channel = None

\* apart from the channel id of the user path the statement holds
C20_PostOnceAfterResolution ==
  InSlackHandler => PostedOnceWhenResolved(extract_slack_target(state.user_query.v))

\* on the channel path every post carries the id found in a list
C20_ChannelPathHasId ==
  (InSlackHandler /\ SlackCalls("users.list") = {}) => PostsHaveChannelId

\* the message was posted once on each path, and not posted for a user and
\* for a channel that was not found
C20_PostedToUser ==
  /\ pc = "done" /\ SlackCalls("conversations.open") # {}
  /\ \E i \in SlackCalls("chat.postMessage") : ~Failed(calls[i])
C20_PostedToPrivateChannel ==
  /\ pc = "done" /\ SlackCalls("conversations.list private") # {}
  /\ \E i \in SlackCalls("chat.postMessage") : ~Failed(calls[i])
C20_UserNotFound ==
  pc = "done" /\ InSlackHandler /\ UserUnresolved(extract_slack_target(state.user_query.v))
C20_ChannelNotFound ==
  pc = "done" /\ InSlackHandler /\ ChannelUnresolved(extract_slack_target(state.user_query.v))

\* a terminal node has returned and the graph is at END, before formatting
NodeReturned == pc = "END" /\ Len(visited) >= 2
\* the terminal node that has run
TerminalNode == visited[Len(visited) - 1]
AdvisoryNodes == {"needs_clarification_node", "general_response_node"}
ApiResponseSet == state.api_response # None
ErrorMessageSet == state.error_message # None

\* C21: after a terminal handler node has run exactly one of api_response
\* and error_message is set in the state, never both and never neither;
\* after the needs_clarification and general_response nodes api_response
\* alone is set, with a payload that is no error.
C21_ExactlyOneOfResponseAndError ==
  NodeReturned =>
    IF TerminalNode \in AdvisoryNodes
    THEN ApiResponseSet /\ ~ErrorMessageSet /\ ~HasError(state.api_response)
    ELSE ApiResponseSet # ErrorMessageSet

\* C21, its case: the list-issues node has returned for a query without a
\* repository and both api_response and error_message are set.
C21_BothSet ==
  /\ NodeReturned
  /\ TerminalNode = "github_list_issues_node"
  /\ state.api_response
       = PyDict([error |-> PyStr(<<"R","e","p","o","s","i","t","o","r","y"," ","n","a","m","e"," ","n","o","t"," ","e","x","t","r","a","c","t","e","d"," ","f","o","r"," ","l","i","s","t","i","n","g"," ","i","s","s","u","e","s",".">>)])
  /\ state.error_message = PyStr(<<"R","e","p","o"," ","n","a","m","e"," ","m","i","s","s","i","n","g">>)

\* api_response is set after every terminal node; error_message is set with
\* it exactly when the node found a parameter missing and issued no request
C21_ResponseAlwaysSet ==
  NodeReturned =>
    /\ ApiResponseSet
    /\ ErrorMessageSet => (HasError(state.api_response) /\ calls = SelectSeq(calls, LAMBDA c : Service(c) = "model"))
    /\ TerminalNode \in AdvisoryNodes => (~ErrorMessageSet /\ ~HasError(state.api_response))

\* the requests of the run for one issue
IssueRequests ==
  {i \in DOMAIN calls : calls[i].req.endpoint \in {"issues/{n}", "issues/{n}/comments"}}
IssueNodes == {"github_get_issue_node", "github_comment_issue_node"}
NotPositive(n) == n.k = "int" /\ n.v <= 0

\* C22: the get-issue and comment-on-issue handlers call the network only
\* when issue_number is a positive integer; for an issue_number that is zero
\* or negative they set error_message and issue no request.
C22_RequestOnlyForPositiveNumber ==
  /\ \A i \in IssueRequests : calls[i].req.item.k = "int" /\ calls[i].req.item.v > 0
  /\ (NodeReturned /\ TerminalNode \in IssueNodes /\ NotPositive(state.issue_number))
       => (ErrorMessageSet /\ IssueRequests = {})

\* C22, its case: the model replied ISSUE_NUMBER: -5 and the get-issue
\* handler has requested issue -5.
C22_NegativeNumberRequested ==
  /\ state.issue_number = PyInt(0 - 5)
  /\ \E i \in IssueRequests :
       calls[i].req.endpoint = "issues/{n}" /\ calls[i].req.item = PyInt(0 - 5)

\* for the issue_number zero the handlers set error_message and issue no
\* request, and no request is for the issue zero
C22_ZeroNumberRejected ==
  /\ \A i \in IssueRequests : calls[i].req.item # PyInt(0)
  /\ (NodeReturned /\ TerminalNode \in IssueNodes /\ state.issue_number = PyInt(0))
       => (ErrorMessageSet /\ IssueRequests = {})
C22_ZeroNumberSeen ==
  NodeReturned /\ TerminalNode \in IssueNodes /\ state.issue_number = PyInt(0)

\* the first definition of _extract_branch_name in the class body, which the
\* second definition replaces: the name after the word branch, between on
\* and branch, after switch to, or after checkout
BranchNamePatterns ==
  << Lit(<<"b","r","a","n","c","h">>) \o Plus(WS) \o Group(Plus(In(BranchChars))),
     Lit(<<"o","n">>) \o Plus(WS) \o Group(Plus(In(BranchChars))) \o Plus(WS) \o Lit(<<"b","r","a","n","c","h">>),
     Lit(<<"s","w","i","t","c","h">>) \o Plus(WS) \o Lit(<<"t","o">>) \o Plus(WS) \o Group(Plus(In(BranchChars))),
     Lit(<<"c","h","e","c","k","o","u","t">>) \o Plus(WS) \o Group(Plus(In(BranchChars))) >>
NamedBranch(query) == FirstGroup(BranchNamePatterns, 1, query)

\* the fallback has come to its branch rule: no rule before it holds and
\* the query has a branch keyword
AtBranchRule(query_lower, issue_number) ==
  /\ \A rule \in 1..6 : ~RuleHolds(rule, query_lower, issue_number, None)
  /\ ContainsAny(query_lower, branch_patterns)

BranchNameCarried(query_lower, named) ==
  /\ extract_branch_name(state.user_query.v) = named
  /\ ContainsAny(query_lower, create_branch_patterns)
       => (state.action_type = PyStr(github_create_branch) /\ state.branch_name = named)
  /\ (~ContainsAny(query_lower, create_branch_patterns)
        /\ ~ContainsAny(query_lower, list_branch_patterns) /\ Truthy(named))
       => (state.action_type = PyStr(github_get_branch) /\ state.branch_name = named)

\* C23: extract_branch_name returns the name that follows the word branch
\* in the query, None only when no pattern matches; the fallback
\* classification of a create-branch query carries that name, and a branch
\* query with a name and no create or list word is github_get_branch.
C23_BranchNameExtracted ==
  (FellBack /\ AtBranchRule(Strip(ToLower(state.user_query.v)),
                            extract_issue_number(state.user_query.v)))
    => BranchNameCarried(Strip(ToLower(state.user_query.v)), NamedBranch(state.user_query.v))

\* C23, its case: the fallback has classified Create branch hotfix-1 from
\* main in repo svc as github_create_branch without a branch name.
C23_CreateBranchWithoutName ==
  /\ FellBack
  /\ state.user_query = PyStr(<<"C","r","e","a","t","e"," ","b","r","a","n","c","h"," ","h","o","t","f","i","x","-","1"," ","f","r","o","m"," ","m","a","i","n"," ","i","n"," ","r","e","p","o"," ","s","v","c">>)
  /\ NamedBranch(state.user_query.v) = PyStr(<<"h","o","t","f","i","x","-","1">>)
  /\ state.action_type = PyStr(github_create_branch)
  /\ state.branch_name = None

\* a branch query with a name and no create or list word is classified by
\* the default
C23_NamedBranchIsGeneral ==
  /\ FellBack
  /\ state.user_query = PyStr(<<"b","r","a","n","c","h"," ","h","o","t","f","i","x">>)
  /\ state.action_type = PyStr(general_response)

\* the fallback never classifies a query github_get_branch
C23_FallbackNeverGetsBranch ==
  FellBack => state.action_type # PyStr(github_get_branch)

\* the branches the step has created
CreatedBranches == DOMAIN remote' \ DOMAIN remote

C24_StaleBetweenRequests ==
  /\ pc = "git/refs"
  /\ local = Sha(1)
  /\ remote = ( <<"m","a","i","n">> :> 2)

\* the descriptive content of the query: the stripped group of the first
\* content pattern that matches, None when none does
DescriptiveContent(g) == IF g = None THEN None ELSE PyStr(Strip(g.v))

\* the title is at most max characters long and starts as the content does;
\* the body holds the whole content
TitledWithin(issue, content, max) ==
  IF content = None THEN issue = None
  ELSE /\ issue.k = "dict"
       /\ Len(issue.v.title.v) <= max
       /\ Prefix(issue.v.title.v, TitleLen)
            = Prefix(content.v, Len(Prefix(issue.v.title.v, TitleLen)))
       /\ Contains(issue.v.body.v, content.v)
IsPrefixTitle(issue, content) ==
  issue # None => issue.v.title.v = Prefix(content.v, Len(issue.v.title.v))

\* C25: extract_issue_content returns, for descriptive content of any
\* length, a title of at most 50 characters that is a prefix of the content
\* and a body that contains the full content, and None when the query has no
\* descriptive clause.
C25_TitleIsPrefixOfAtMost50 ==
  pc = "extracted" =>
    /\ TitledWithin(local, DescriptiveContent(FirstGroup(ContentPatterns, 1, state.user_query.v)),
                    TitleLen)
    /\ IsPrefixTitle(local, DescriptiveContent(FirstGroup(ContentPatterns, 1, state.user_query.v)))

\* C25, its case: content of 51 characters has been given a title of 53
\* characters, the first 50 of the content and three dots.
C25_TitleOf53Characters ==
  /\ pc = "extracted"
  /\ state.user_query = PyStr(<<"r","a","i","s","e"," ","a","n"," ","i","s","s","u","e"," ","a","b","o","u","t"," ">> \o ContentText(TitleLen + 1))
  /\ local.k = "dict"
  /\ local.v.title = PyStr(Prefix(ContentText(TitleLen + 1), TitleLen) \o <<".",".",".">>)
  /\ Len(local.v.title.v) = TitleLen + 3

\* the title is at most 53 characters long, its first 50 are a prefix of the
\* content, the body contains the content, and a query without a clause
\* gives None; content of up to 50 characters is its own title
C25_TitleWithEllipsis ==
  pc = "extracted" =>
    /\ TitledWithin(local, DescriptiveContent(FirstGroup(ContentPatterns, 1, state.user_query.v)),
                    TitleLen + 3)
    /\ (local # None /\ Len(local.v.title.v) <= TitleLen)
         => IsPrefixTitle(local, DescriptiveContent(FirstGroup(ContentPatterns, 1, state.user_query.v)))
C25_NoClause ==
  pc = "extracted" /\ state.user_query = PyStr(<<"r","a","i","s","e"," ","a","n"," ","i","s","s","u","e">>) /\ local = None

\* the reply of the model parses to the intent unhandled, or the call failed
ReplyUnhandled ==
  reply.raised \/ parse_structured_response(Strip(reply.text)).action_type = PyStr(unhandled)

C27_ResponseAlwaysPresent ==
  /\ NodeReturned => Truthy(state.api_response)
  /\ pc = "done" => output # NoResponseLine

\* C27, its case: the repository has no branch, the service answers 200 with
\* the empty list, and process_query returns the no-response line.
C27_EmptyBranchListIsNoResponse ==
  /\ pc = "done"
  /\ state.action_type = PyStr(github_list_branches)
  /\ LastCall.req.endpoint = "branches" /\ LastCall.resp.status = 200
  /\ state.api_response = PyList(<<>>)
  /\ state.error_message = None
  /\ output = NoResponseLine

\* the no-response line is returned for the empty list of issues or
\* branches alone
C27_NoResponseOnlyForEmptyList ==
  /\ NodeReturned => (Truthy(state.api_response) \/ state.api_response = PyList(<<>>))
  /\ (pc = "done" /\ output = NoResponseLine) =>
       /\ state.api_response = PyList(<<>>)
       /\ state.action_type \in {PyStr(github_list_issues), PyStr(github_list_branches)}

\* the target extraction finds neither a user nor a channel in the query
NoSlackTarget(target) == target.user = None /\ target.channel = None

\* no request has gone to Slack and none is about to; once the handler has
\* returned its result is an error with ok false
NoSlackRequest ==
  /\ \A i \in DOMAIN calls : Service(calls[i]) # "slack"
  /\ pc \notin {"users.list", "conversations.open", "conversations.list",
                "conversations.list private", "chat.postMessage"}
  /\ pc \in {"END", "done"} =>
       /\ DictGet(state.api_response, "ok", None) = PyBool(FALSE)
       /\ HasError(state.api_response)

\* C28: when the Slack target extraction finds neither a user nor a channel
\* the Slack handler issues no request to Slack and returns an error result
\* with ok false; the default channel #general of the helper is not applied.
C28_NoTargetNoRequest ==
  (EnteredNode = "slack_message_node" /\ pc # "slack_message_node"
     /\ NoSlackTarget(extract_slack_target(state.user_query.v)))
    => NoSlackRequest

\* C28, its case: send message names no user and no channel; the handler has
\* returned the error of the except clause and the only request of the run
\* is the call of the model.
C28_ReturnedWithoutRequest ==
  /\ pc = "done"
  /\ state.user_query = PyStr(<<"s","e","n","d"," ","m","e","s","s","a","g","e">>)
  /\ EnteredNode = "slack_message_node"
  /\ state.api_response = SlackUnexpected(NoLstrip)
  /\ Len(calls) = 1 /\ Service(calls[1]) = "model"

\* the requests of the run that look up the head of a source branch
Lookups == {i \in DOMAIN calls : calls[i].req.endpoint = "git/refs/heads/{name}"}

\* the classifier has determined no source branch: the reply of the model
\* has no SOURCE_BRANCH line or has null there, or the fallback has
\* classified and the query names no source
NoSourceBranch ==
  IF ReplyUnhandled THEN extract_source_branch(state.user_query.v) = None
  ELSE ParsedField(parse_structured_response(Strip(reply.text)), "source_branch") = None

CreateBranchEntered ==
  EnteredNode = "github_create_branch_node" /\ pc # "github_create_branch_node"

\* C29: whenever the classifier has determined no source branch for a
\* github_create_branch intent the create-branch handler looks up main and
\* branches from it.
C29_BranchesFromMainByDefault ==
  (CreateBranchEntered /\ NoSourceBranch) =>
    \A i \in Lookups : calls[i].req.item = PyStr(<<"m","a","i","n">>)

\* C29, its case: the model replied SOURCE_BRANCH: null, and the handler has
\* looked up the source branch None and returned its failure.
C29_LookedUpNone ==
  /\ pc = "done"
  /\ reply = ModelReplies(<<"A","C","T","I","O","N",":"," ","g","i","t","h","u","b","_","c","r","e","a","t","e","_","b","r","a","n","c","h","\n","R","E","P","O",":"," ","s","v","c","\n","B","R","A","N","C","H","_","N","A","M","E",":"," ","h","o","t","f","i","x","-","1","\n","S","O","U","R","C","E","_","B","R","A","N","C","H",":"," ","n","u","l","l">>)
  /\ Lookups # {}
  /\ \A i \in Lookups : calls[i].req.item = None
  /\ DictGet(state.api_response, "error", None) = PyStr(<<"C","o","u","l","d"," ","n","o","t"," ","f","i","n","d"," ","s","o","u","r","c","e"," ","b","r","a","n","c","h"," ","'","N","o","n","e","'">>)

\* a reply without a SOURCE_BRANCH line makes the handler look up main
C29_MissingLineIsMain ==
  (CreateBranchEntered /\ ~ReplyUnhandled
     /\ "source_branch" \notin DOMAIN parse_structured_response(Strip(reply.text)))
    => (Lookups # {} /\ \A i \in Lookups : calls[i].req.item = PyStr(<<"m","a","i","n">>))
C29_MissingLineSeen ==
  /\ pc = "done"
  /\ reply = ModelReplies(<<"A","C","T","I","O","N",":"," ","g","i","t","h","u","b","_","c","r","e","a","t","e","_","b","r","a","n","c","h","\n","R","E","P","O",":"," ","s","v","c","\n","B","R","A","N","C","H","_","N","A","M","E",":"," ","h","o","t","f","i","x","-","1">>)
  /\ Lookups # {}

\* the fallback gives the source branch main to a query that names none,
\* and the handler, given no branch name by the fallback, issues no request
C29_FallbackSourceIsMain ==
  (CreateBranchEntered /\ reply.raised) =>
    /\ extract_source_branch(state.user_query.v) = None => state.source_branch = PyStr(<<"m","a","i","n">>)
    /\ Lookups = {}
C29_FallbackSeen ==
  /\ pc = "done" /\ reply.raised /\ EnteredNode = "github_create_branch_node"
  /\ state.user_query = PyStr(<<"C","r","e","a","t","e"," ","b","r","a","n","c","h"," ","h","o","t","f","i","x","-","1"," ","i","n"," ","r","e","p","o"," ","s","v","c">>)

(***************************************************************************)
(* The chat endpoint.  integrations_db is a dict keyed by a fresh uuid, so *)
(* its values are iterated in the order the integrations were connected.   *)
(***************************************************************************)
MaxIntegrations == 3

UserEmails == {<<"a","n","n","@","x",".","i","o">>, <<"b","o","b","@","x",".","i","o">>}

ServiceTypes == {<<"g","i","t","h","u","b">>, <<"s","l","a","c","k">>, <<"j","i","r","a">>}

\* The record connect_service stores: the token as sent, the username of
\* the validated account.
integration_data(user_email, service_type) ==
  [user_email |-> user_email, service_type |-> service_type,
   encrypted_token |-> PyStr(service_type \o <<"-","t","o","k","e","n">>),
   username |-> PyStr(service_type \o <<"-","l","o","g","i","n">>)]

ConnectService ==
  /\ Len(integrations_db) < MaxIntegrations
  /\ \E user_email \in UserEmails, service_type \in ServiceTypes :
       integrations_db' = Append(integrations_db, integration_data(user_email, service_type))
  /\ UNCHANGED <<pc, state, reply, visited, calls, local, remote, exc, output, self, other>>

DisconnectService ==
  /\ \E i \in DOMAIN integrations_db :
       integrations_db' = [j \in 1..(Len(integrations_db) - 1) |->
                             IF j < i THEN integrations_db[j] ELSE integrations_db[j + 1]]
  /\ UNCHANGED <<pc, state, reply, visited, calls, local, remote, exc, output, self, other>>

connected_services(db, user_email) ==
  LET user(i) == db[i].user_email = user_email
      RECURSIVE collect(_)
      collect(i) == IF i > Len(db) THEN <<>>
                    ELSE (IF user(i) THEN <<db[i].service_type>> ELSE <<>>) \o collect(i + 1)
  IN collect(1)

\* next(...) of the generator: the first integration of the user for the service.
first_integration(db, user_email, service_type) ==
  LET found == {i \in DOMAIN db : db[i].service_type = service_type
                                  /\ db[i].user_email = user_email}
  IN IF found = {} THEN None
     ELSE db[CHOOSE i \in found : \A j \in found : i <= j]

\* The loop over the connected services: it stops at the first GitHub or
\* Slack integration it finds.
chat_credentials(db, user_email) ==
  LET services == connected_services(db, user_email)
      nothing == [GITHUB_TOKEN |-> None, GITHUB_OWNER |-> None, SLACK_TOKEN |-> None]
      RECURSIVE loop(_)
      loop(i) ==
        IF i > Len(services) THEN nothing
        ELSE IF services[i] = <<"g","i","t","h","u","b">>
                /\ first_integration(db, user_email, <<"g","i","t","h","u","b">>) # None
             THEN [nothing EXCEPT
                     !.GITHUB_TOKEN = first_integration(db, user_email, <<"g","i","t","h","u","b">>).encrypted_token,
                     !.GITHUB_OWNER = first_integration(db, user_email, <<"g","i","t","h","u","b">>).username]
        ELSE IF services[i] = <<"s","l","a","c","k">>
                /\ first_integration(db, user_email, <<"s","l","a","c","k">>) # None
             THEN [nothing EXCEPT
                     !.SLACK_TOKEN = first_integration(db, user_email, <<"s","l","a","c","k">>).encrypted_token]
        ELSE loop(i + 1)
  IN loop(1)

\* process_chat_message up to the construction of the processor; local
\* keeps the user the message came from.
ProcessChatMessage ==
  /\ \E user_email \in UserEmails :
       LET c == chat_credentials(integrations_db, user_email)
       IN /\ self' = init(PyStr(<<"k","e","y">>), c.GITHUB_TOKEN, c.SLACK_TOKEN, c.GITHUB_OWNER).self
          /\ local' = PyStr(user_email)
  /\ pc' = "processor built"
  /\ UNCHANGED <<state, reply, visited, calls, remote, exc, output, other, integrations_db>>

NextChat == ConnectService \/ DisconnectService \/ ProcessChatMessage

SpecChat == NoProcessor /\ [][NextChat]_vars

HasIntegration(db, user_email, service_type) ==
  \E i \in DOMAIN db : db[i].user_email = user_email /\ db[i].service_type = service_type

\* The processor has the credentials of exactly the services of the user.
CredentialPerService(processor, db, user_email) ==
  /\ processor.github_token # None <=> HasIntegration(db, user_email, <<"g","i","t","h","u","b">>)
  /\ processor.github_owner # None <=> HasIntegration(db, user_email, <<"g","i","t","h","u","b">>)
  /\ processor.slack_token # None <=> HasIntegration(db, user_email, <<"s","l","a","c","k">>)

HasBoth(db, user_email) ==
  HasIntegration(db, user_email, <<"g","i","t","h","u","b">>) /\ HasIntegration(db, user_email, <<"s","l","a","c","k">>)

\* C30: whenever a chat message is processed, the processor is built with a
\* GitHub token and owner exactly when the user has a GitHub integration and
\* with a Slack token exactly when the user has a Slack integration, for
\* every set and order of integrations.  Refuted: the loop stops at the
\* first of the two services it meets.
C30_CredentialForEveryService ==
  [][ProcessChatMessage =>
       CredentialPerService(self', integrations_db, local'.v)]_vars

\* C30: a user who connected GitHub and then Slack gets a processor with
\* the GitHub credentials and no Slack token.
C30_BothConnectedSlackTokenNull ==
  /\ pc = "processor built"
  /\ local = PyStr(<<"a","n","n","@","x",".","i","o">>)
  /\ integrations_db = <<integration_data(<<"a","n","n","@","x",".","i","o">>, <<"g","i","t","h","u","b">>),
                         integration_data(<<"a","n","n","@","x",".","i","o">>, <<"s","l","a","c","k">>)>>
  /\ self.github_token # None
  /\ self.slack_token = None

\* C30: connected in the other order, the same user gets the Slack token
\* and neither GitHub credential.
C30_BothConnectedGithubTokenNull ==
  /\ pc = "processor built"
  /\ local = PyStr(<<"a","n","n","@","x",".","i","o">>)
  /\ integrations_db = <<integration_data(<<"a","n","n","@","x",".","i","o">>, <<"s","l","a","c","k">>),
                         integration_data(<<"a","n","n","@","x",".","i","o">>, <<"g","i","t","h","u","b">>)>>
  /\ self.slack_token # None
  /\ self.github_token = None
  /\ self.github_owner = None

\* C30: for a user who has not connected both services the processor has
\* the credentials of exactly the services of the user.
C30_CredentialWhenNotBoth ==
  [][(ProcessChatMessage /\ ~HasBoth(integrations_db, local'.v)) =>
       CredentialPerService(self', integrations_db, local'.v)]_vars

\* C30: a user with both services always gets exactly one of the two tokens.
C30_BothConnectedExactlyOneToken ==
  [][(ProcessChatMessage /\ HasBoth(integrations_db, local'.v)) =>
       ((self'.github_token = None) # (self'.slack_token = None))]_vars
====
